---- MODULE Spec2Model ----
(***************************************************************************)
(* thunder-swap: the swap orchestrator (src/swap/orchestrator.ts), the     *)
(* spend-path builders (src/bitcoin/claim.ts, src/bitcoin/refund.ts), the  *)
(* HTLC builder (utils of src/bitcoin/htlc) and the USER comm server.      *)
(*                                                                         *)
(* Every async function is a process; one action is the code that runs     *)
(* from the return of one awaited collaborator call to the issue of the    *)
(* next one.  Collaborators (RLN node, bitcoind, the counterparty) answer  *)
(* nondeterministically from small sets.  A process logs in `calls` the    *)
(* calls it issues, but for the reads of its polling loops, which the      *)
(* attempt counter counts; `endReply` is the answer a loop ended on.       *)
(***************************************************************************)
EXTENDS Integers, Sequences, FiniteSets, TLC

VARIABLES
  cfg,                    \* config.ts: LOCKTIME_BLOCKS, HODL_EXPIRY_SEC, MIN_CONFS
  depParams,              \* DepositParams of runDeposit
  dep,                    \* runDeposit, one execution per world
  submarineRequest,       \* comm-server.ts slot, per world
  rgbInvoiceHtlcResponse, \* comm-server.ts slot, per world
  fundingData,            \* comm-server.ts slot, per world
  store,                  \* store.ts: hodl_store.json, per world
  collab,                 \* how the collaborators answer: "free" or "faithful"
  rlnSettled,             \* RLN node: the invoiceSettle requests it received
  us,                     \* runUserSettleHodlInvoice
  lp,                     \* runLpOperatorFlow
  swParams,               \* SwapParams of runSwap
  sw,                     \* runSwap (legacy single-process flow)
  broadcasts,             \* bitcoind: the transactions sendRawTransaction was given
  psbts,                  \* the refund PSBTs buildRefundPsbtBase64 returned
  uw,                     \* runUserWaitInvoiceStatus
  published,              \* per handoff resource, the JSON value published last
  hw,                     \* a handoff wait of the comm client / comm server
  wf,                     \* waitForFunding, with the node's outputs it runs against
  sd,                     \* sendDepositTransaction
  sel,                    \* a direct call of selectUtxos: its inputs and its result
  hb,                     \* an HTLC contract built, and its output script reconstructed
  run,                    \* the USER process: which runDeposit it is in, and the run
                          \* during which the rgbinvoicehtlc slot was written last
  http                    \* comm-server.ts: the POST of an arbitrary client handled last, and its status

depVars == <<dep, submarineRequest, rgbInvoiceHtlcResponse, fundingData, store>>
splitVars == <<collab, rlnSettled, us, lp>>
swapVars == <<swParams, sw, broadcasts, psbts>>
coreVars == <<cfg, depParams, depVars, splitVars, swapVars>>
moreVars == <<uw, published, hw, wf, http>>
coinVars == <<sd, sel, hb, run>>
vars == <<cfg, depParams, dep, submarineRequest, rgbInvoiceHtlcResponse,
          fundingData, store, collab, rlnSettled, us, lp,
          swParams, sw, broadcasts, psbts, uw, published, hw, wf, sd, sel, hb, run, http>>

(***************************************************************************)
(* Bounds                                                                  *)
(***************************************************************************)
NumPreimages == 2

(***************************************************************************)
(* Values                                                                  *)
(***************************************************************************)
\* Two executions of the same flow under the same collaborator answers.
Worlds == {1, 2}

\* An optional value (undefined / null) is a sequence of length 0 or 1.
None == <<>>
Some(x) == <<x>>
IsSome(o) == Len(o) = 1
Get(o) == o[1]

\* 32-byte hex strings are numbered; the empty string is 0.
EmptyHex == 0
Preimages == 1..NumPreimages

\* createHash('sha256').update(buf).digest('hex'): collision-free on the
\* bounded domain, and no value is its own digest.
sha256hex(buf) == 100 + ((buf * 3) % 7)

BLOCK_TARGET_SEC == 600
TIMECUSHION_SEC == 3600
DUST_P2TR == 330

\* The chain tip the counterparty built its HTLC at.
TipHeight == 5000

\* bitcoin.address.fromOutputScript(script, network): bech32m of a v1
\* witness program; any other script "has no matching Address" (throws).
ValidScripts == {"5120aa", "5120bb"}
Scripts == ValidScripts \cup {"6a00"}
fromOutputScript(script) ==
  CASE script = "5120aa" -> Some("bcrt1paa")
    [] script = "5120bb" -> Some("bcrt1pbb")
    [] OTHER -> None

Addresses == {"bcrt1paa", "bcrt1pbb", ""}

\* JSON bodies the counterparty can POST to /rgbinvoicehtlc.
RgbResponses ==
  [ invoice : {"rgb:invoice"},
    htlc_p2tr_script_pubkey : {Some(s) : s \in Scripts} \cup {None, Some("")},
    htlc_p2tr_address : {Some(a) : a \in Addresses} \cup {None},
    t_lock : {None, Some(TipHeight + 1), Some(TipHeight + 300)} ]

InvoiceResponses == { [invoice |-> "lnbc1dummy", payment_secret |-> "secret123"] }
Fundings == { [txid |-> "fundtx", vout |-> 0, value |-> 12345] }
DepositTxs == { [txid |-> "deposittx", fee_sat |-> 50] }

\* The answer of an awaited collaborator call: a value or a thrown error.
Ok(v) == [ok |-> TRUE, value |-> v]
Thrown == [ok |-> FALSE]

(***************************************************************************)
(* runDeposit (USER): orchestrator.ts 132-286                              *)
(***************************************************************************)
DepIdle ==
  [ pc |-> "idle", preimage |-> EmptyHex, H |-> EmptyHex, calls |-> <<>>,
    invoice |-> None, rgb |-> None, derivedAddress |-> None,
    htlcAddress |-> None, tLock |-> None, funding |-> None, error |-> "" ]

DepReject(d, msg) == [d EXCEPT !.pc = "rejected", !.error = msg]

DepCall(d, c) == [d EXCEPT !.calls = Append(@, c)]

\* orchestrator.ts 157-158
UnsafeTimelockMarginLt(c) ==
  c.LOCKTIME_BLOCKS * BLOCK_TARGET_SEC < c.HODL_EXPIRY_SEC + TIMECUSHION_SEC

UnsafeTimelockMargin(c) ==
  c.LOCKTIME_BLOCKS * BLOCK_TARGET_SEC <= c.HODL_EXPIRY_SEC + TIMECUSHION_SEC

\* Amounts that are no whole numbers of sats. The model counts sats in
\* integers: 1500.5 sats is held as HalfSatAmount, which compares with 0 and
\* with 330 as 1500.5 does, and NaN as NotANumber, which Number.isFinite and
\* Number.isInteger turn down before any comparison reads it
HalfSatAmount == 1501
NotANumber == 0 - 1

\* orchestrator.ts 146: Number.isFinite(amountSat)
NumberIsFinite(n) == n # NotANumber

\* deposit.ts 53: Number.isInteger(amountSat)
NumberIsInteger(n) == n \notin {NotANumber, HalfSatAmount}

\* orchestrator.ts 146-178: validation, preimage and hash, issue invoiceHodl
BeginDeposit(d, c, prm, p) ==
  IF ~NumberIsFinite(prm.amountSat) \/ prm.amountSat <= 0
  THEN DepReject(d, "amountSat must be a positive integer (sats)")
  ELSE IF prm.amountSat < DUST_P2TR THEN DepReject(d, "amountSat must be at least 330 sats")
  ELSE IF UnsafeTimelockMargin(c) THEN DepReject(d, "LOCKTIME_BLOCKS is too low for HODL_EXPIRY_SEC")
  ELSE DepCall([d EXCEPT !.pc = "invoiceHodl", !.preimage = p, !.H = sha256hex(p)],
               [ fn |-> "invoiceHodl", payment_hash |-> sha256hex(p),
                 expiry_sec |-> c.HODL_EXPIRY_SEC, amt_msat |-> prm.amountSat * 1000 ])

\* orchestrator.ts 186-194: the record handed to persistHodlRecord
HodlRecordOf(d, c, prm, resp) ==
  [ fn |-> "persistHodlRecord", payment_hash |-> d.H, preimage |-> d.preimage,
    amt_msat |-> prm.amountSat * 1000, expiry_sec |-> c.HODL_EXPIRY_SEC,
    invoice |-> resp.invoice, payment_secret |-> resp.payment_secret ]

\* orchestrator.ts 172-194: invoiceHodl returned, issue persistHodlRecord
AfterInvoiceHodl(d, c, prm, r) ==
  IF ~r.ok THEN DepReject(d, "invoiceHodl")
  ELSE DepCall([d EXCEPT !.pc = "persist", !.invoice = Some(r.value)],
               HodlRecordOf(d, c, prm, r.value))

\* orchestrator.ts 198: the value handed to publishSubmarineRequest
SubmarineRequestLeaky(d, prm) ==
  [ invoice |-> Get(d.invoice).invoice,
    userRefundPubkeyHex |-> prm.userRefundPubkeyHex,
    payment_hash |-> d.H ]

SubmarineRequestOf(d, prm) ==
  [ invoice |-> Get(d.invoice).invoice,
    userRefundPubkeyHex |-> prm.userRefundPubkeyHex ]

\* orchestrator.ts 198-199 in the other order: wait first, publish after
AfterPersistWaitFirst(d, prm, r) ==
  IF ~r.ok THEN DepReject(d, "persistHodlRecord")
  ELSE DepCall(DepCall([d EXCEPT !.pc = "waitRgb"],
                       [fn |-> "waitForRgbInvoiceHtlcResponse"]),
               [fn |-> "publishSubmarineRequest", request |-> SubmarineRequestOf(d, prm)])

\* orchestrator.ts 186-200: persist returned, publish the request, wait for the LP
AfterPersist(d, prm, r) ==
  IF ~r.ok THEN DepReject(d, "persistHodlRecord")
  ELSE DepCall(DepCall([d EXCEPT !.pc = "waitRgb"],
                       [fn |-> "publishSubmarineRequest", request |-> SubmarineRequestOf(d, prm)]),
               [fn |-> "waitForRgbInvoiceHtlcResponse"])

\* orchestrator.ts 218: const htlcAddress = rgbInvoiceResp.htlc_p2tr_address ?? derivedAddress
HtlcAddressOf(resp, derivedAddress) ==
  IF IsSome(resp.htlc_p2tr_address) THEN Get(resp.htlc_p2tr_address) ELSE derivedAddress

\* orchestrator.ts 200-233: the LP's response arrived, derive the address, issue sendDeposit
AfterWaitRgb(d, prm, r) ==
  IF ~r.ok THEN DepReject(d, "Failed to retrieve rgbinvoicehtlc response.")
  ELSE LET resp == r.value
           spk == resp.htlc_p2tr_script_pubkey
       IN IF ~IsSome(spk) \/ spk = Some("")
          THEN DepReject(d, "RLN did not return htlc_p2tr_script_pubkey")
          ELSE IF ~IsSome(fromOutputScript(Get(spk)))
          THEN DepReject(d, "has no matching Address")
          ELSE LET derived == Get(fromOutputScript(Get(spk)))
                   addr == HtlcAddressOf(resp, derived)
               IN DepCall([d EXCEPT !.pc = "sendDeposit", !.rgb = Some(resp),
                                    !.derivedAddress = Some(derived),
                                    !.htlcAddress = Some(addr),
                                    !.tLock = resp.t_lock],
                          [fn |-> "sendDeposit", address |-> addr, amountSat |-> prm.amountSat])

\* orchestrator.ts 233-244: deposit sent, issue waitForFunding
AfterSendDeposit(d, c, r) ==
  IF ~r.ok THEN DepReject(d, "sendDeposit")
  ELSE DepCall([d EXCEPT !.pc = "waitFunding"],
               [fn |-> "waitForFunding", address |-> Get(d.htlcAddress), minConfs |-> c.MIN_CONFS])

\* orchestrator.ts 244-249: funding confirmed, issue sendAsset
AfterWaitFunding(d, r) ==
  IF ~r.ok THEN DepReject(d, "waitForFunding")
  ELSE DepCall([d EXCEPT !.pc = "sendAsset", !.funding = Some(r.value)],
               [fn |-> "sendAsset", invoice |-> Get(d.rgb).invoice])

\* orchestrator.ts 249-256: asset sent, issue waitForTxConfirmation
AfterSendAsset(d, c, r) ==
  IF ~r.ok THEN DepReject(d, "sendAsset")
  ELSE DepCall([d EXCEPT !.pc = "waitConf"],
               [fn |-> "waitForTxConfirmation", txid |-> r.value, minConfs |-> c.MIN_CONFS])

\* orchestrator.ts 256-258: confirmed, issue refreshTransfers
AfterWaitConf(d, r) ==
  IF ~r.ok THEN DepReject(d, "waitForTxConfirmation")
  ELSE DepCall([d EXCEPT !.pc = "refresh"], [fn |-> "refreshTransfers"])

\* orchestrator.ts 262: the value handed to publishFundingData
FundingDataOf(d) ==
  [fundingTxid |-> Get(d.funding).txid, fundingVout |-> Get(d.funding).vout]

\* orchestrator.ts 258-285: refreshed, publish the funding data, return
AfterRefresh(d, r) ==
  IF ~r.ok THEN DepReject(d, "refreshTransfers")
  ELSE DepCall([d EXCEPT !.pc = "done"],
               [fn |-> "publishFundingData", funding |-> FundingDataOf(d)])

\* store.ts 47-51: store[record.payment_hash] = record
StorePut(st, rec) ==
  {r \in st : r.payment_hash # rec.payment_hash}
    \cup {[payment_hash |-> rec.payment_hash, preimage |-> rec.preimage,
            invoice |-> rec.invoice]}

\* store.ts 53-56: store[paymentHash], undefined when there is none
getHodlRecord(st, paymentHash) ==
  IF \E r \in st : r.payment_hash = paymentHash
  THEN Some(CHOOSE r \in st : r.payment_hash = paymentHash)
  ELSE None

-----------------------------------------------------------------------------
(* Actions of runDeposit: the same collaborator answer in every world.     *)

\* randomBytes(32) of each world; one execution when the worlds coincide
PreimageDraws ==
  IF collab = "faithful" THEN {[w \in Worlds |-> q] : q \in Preimages}
  ELSE [Worlds -> Preimages]

\* What the LP posts: anything, or (faithful) the HTLC it built
RgbBodies ==
  IF collab = "faithful"
  THEN { [invoice |-> "rgb:invoice", htlc_p2tr_script_pubkey |-> Some("5120aa"),
          htlc_p2tr_address |-> Some("bcrt1paa"), t_lock |-> Some(TipHeight + 300)] }
  ELSE RgbResponses

AtPc(pc) == \A w \in Worlds : dep[w].pc = pc

DepositBegin ==
  /\ AtPc("idle")
  /\ \E p \in PreimageDraws :
       dep' = [w \in Worlds |-> BeginDeposit(dep[w], cfg, depParams, p[w])]
  /\ UNCHANGED <<coinVars, moreVars, swapVars, cfg, depParams, collab, rlnSettled, us, lp, submarineRequest, rgbInvoiceHtlcResponse, fundingData, store>>

DepositInvoiceHodlReturn ==
  /\ AtPc("invoiceHodl")
  /\ \E r \in {Ok(v) : v \in InvoiceResponses} \cup {Thrown} :
       dep' = [w \in Worlds |-> AfterInvoiceHodl(dep[w], cfg, depParams, r)]
  /\ UNCHANGED <<coinVars, moreVars, swapVars, cfg, depParams, collab, rlnSettled, us, lp, submarineRequest, rgbInvoiceHtlcResponse, fundingData, store>>

\* store.ts 47-51 runs inside the awaited persistHodlRecord
DepositPersistReturn ==
  /\ AtPc("persist")
  /\ \E r \in {Ok("void"), Thrown} :
       /\ dep' = [w \in Worlds |-> AfterPersist(dep[w], depParams, r)]
       /\ store' = [w \in Worlds |->
             IF r.ok THEN StorePut(store[w], dep[w].calls[Len(dep[w].calls)]) ELSE store[w]]
       /\ submarineRequest' = [w \in Worlds |->
             IF r.ok THEN Some(SubmarineRequestOf(dep[w], depParams)) ELSE submarineRequest[w]]
  /\ UNCHANGED <<coinVars, moreVars, swapVars, cfg, depParams, collab, rlnSettled, us, lp, rgbInvoiceHtlcResponse, fundingData>>

\* comm-server.ts 51-67: POST /rgbinvoicehtlc from the LP
PostRgbInvoiceHtlc ==
  /\ AtPc("waitRgb")
  /\ \E body \in RgbBodies :
       rgbInvoiceHtlcResponse' = [w \in Worlds |-> Some(body)]
  /\ run' = [run EXCEPT !.rgbPostedIn = run.n]
  /\ UNCHANGED <<sd, sel, hb, moreVars, swapVars, cfg, depParams, collab, rlnSettled, us, lp, dep, submarineRequest, fundingData, store>>

\* runs of runDeposit in one USER process
MaxRuns == 2

\* the USER process calls runDeposit again after a run ended: the run starts
\* from its parameters, the module-level slots of comm-server.ts 16-18 and the
\* store are what the earlier run left
DepositAgain ==
  /\ \A w \in Worlds : dep[w].pc \in {"done", "rejected"}
  /\ run.n < MaxRuns
  /\ dep' = [w \in Worlds |-> DepIdle]
  /\ run' = [run EXCEPT !.n = @ + 1]
  /\ UNCHANGED <<sd, sel, hb, moreVars, swapVars, cfg, depParams, collab, rlnSettled, us, lp, submarineRequest, rgbInvoiceHtlcResponse, fundingData, store>>

\* comm-server.ts 150-161: the slot's value once there is one, an error when
\* the attempts run out before that
DepositWaitRgbReturn ==
  /\ AtPc("waitRgb")
  /\ dep' = [w \in Worlds |->
        AfterWaitRgb(dep[w], depParams,
                     IF IsSome(rgbInvoiceHtlcResponse[w])
                     THEN Ok(Get(rgbInvoiceHtlcResponse[w])) ELSE Thrown)]
  /\ UNCHANGED <<coinVars, moreVars, swapVars, cfg, depParams, collab, rlnSettled, us, lp, submarineRequest, rgbInvoiceHtlcResponse, fundingData, store>>

DepositSendDepositReturn ==
  /\ AtPc("sendDeposit")
  /\ \E r \in {Ok(v) : v \in DepositTxs} \cup {Thrown} :
       dep' = [w \in Worlds |-> AfterSendDeposit(dep[w], cfg, r)]
  /\ UNCHANGED <<coinVars, moreVars, swapVars, cfg, depParams, collab, rlnSettled, us, lp, submarineRequest, rgbInvoiceHtlcResponse, fundingData, store>>

DepositWaitFundingReturn ==
  /\ AtPc("waitFunding")
  /\ \E r \in {Ok(v) : v \in Fundings} \cup {Thrown} :
       dep' = [w \in Worlds |-> AfterWaitFunding(dep[w], r)]
  /\ UNCHANGED <<coinVars, moreVars, swapVars, cfg, depParams, collab, rlnSettled, us, lp, submarineRequest, rgbInvoiceHtlcResponse, fundingData, store>>

DepositSendAssetReturn ==
  /\ AtPc("sendAsset")
  /\ \E r \in {Ok("rgbsendtx"), Thrown} :
       dep' = [w \in Worlds |-> AfterSendAsset(dep[w], cfg, r)]
  /\ UNCHANGED <<coinVars, moreVars, swapVars, cfg, depParams, collab, rlnSettled, us, lp, submarineRequest, rgbInvoiceHtlcResponse, fundingData, store>>

DepositWaitConfReturn ==
  /\ AtPc("waitConf")
  /\ \E r \in {Ok("void"), Thrown} :
       dep' = [w \in Worlds |-> AfterWaitConf(dep[w], r)]
  /\ UNCHANGED <<coinVars, moreVars, swapVars, cfg, depParams, collab, rlnSettled, us, lp, submarineRequest, rgbInvoiceHtlcResponse, fundingData, store>>

DepositRefreshReturn ==
  /\ AtPc("refresh")
  /\ \E r \in {Ok("void"), Thrown} :
       /\ dep' = [w \in Worlds |-> AfterRefresh(dep[w], r)]
       /\ fundingData' = [w \in Worlds |->
             IF r.ok THEN Some(FundingDataOf(dep[w])) ELSE fundingData[w]]
  /\ UNCHANGED <<coinVars, moreVars, swapVars, cfg, depParams, collab, rlnSettled, us, lp, submarineRequest, rgbInvoiceHtlcResponse, store>>

(***************************************************************************)
(* runUserSettleHodlInvoice (USER): orchestrator.ts 291-347                *)
(***************************************************************************)
HTLCStatus == {"Pending", "Claimable", "Succeeded", "Cancelled", "Failed"}

UsIdle ==
  [ pc |-> "idle", paymentHash |-> EmptyHex, maxAttempts |-> 0, attempt |-> 0,
    record |-> None, status |-> "Timeout", calls |-> <<>>,
    endReply |-> None, observed |-> {}, outbound |-> FALSE, result |-> None ]

UsCall(u, c) == [u EXCEPT !.calls = Append(@, c)]

UsReturn(u, settled, status) ==
  [u EXCEPT !.pc = "done", !.result = Some([settled |-> settled, status |-> status])]

\* orchestrator.ts 337: the guard in front of invoiceSettle
SettlesOnAnyOpen(status) == TRUE

SettlesOn(status) == status = "Claimable"

\* orchestrator.ts 329-346: after the loop
UsAfterLoop(u) ==
  IF u.status \in {"Cancelled", "Failed", "Timeout"} THEN UsReturn(u, FALSE, u.status)
  ELSE IF u.status = "Succeeded" THEN UsReturn(u, TRUE, u.status)
  ELSE IF ~SettlesOn(u.status) THEN UsReturn(u, FALSE, u.status)
  ELSE UsCall([u EXCEPT !.pc = "invoiceSettle"],
              [ fn |-> "invoiceSettle", payment_hash |-> u.paymentHash,
                payment_preimage |-> Get(u.record).preimage ])

\* orchestrator.ts 304-306: the loop's test, then the next getPayment
UsLoop(u) ==
  IF u.attempt < u.maxAttempts
  THEN [u EXCEPT !.pc = "getPayment"]
  ELSE UsAfterLoop(u)

\* orchestrator.ts 298-304: the record was loaded
UsAfterLoad(u, rec) ==
  IF ~IsSome(rec)
  THEN [u EXCEPT !.pc = "rejected"]
  ELSE UsLoop([u EXCEPT !.record = rec, !.status = "Timeout", !.attempt = 0])

\* orchestrator.ts 306-326: one answer of getPayment; the throw of 307-309 is
\* caught at 322-324 like a failed call (outbound notes that it happened)
UsAfterGetPayment(u, r) ==
  IF ~r.ok THEN [u EXCEPT !.pc = "sleep"]
  ELSE IF ~r.value.inbound THEN [u EXCEPT !.pc = "sleep", !.outbound = TRUE]
  ELSE LET v == [u EXCEPT !.status = r.value.status,
                          !.observed = @ \cup {r.value.status}]
       IN IF r.value.status \in {"Claimable", "Succeeded", "Cancelled", "Failed"}
          THEN UsAfterLoop([v EXCEPT !.endReply = Some(r.value)])
          ELSE [v EXCEPT !.pc = "sleep"]

\* orchestrator.ts 326, 304: the pause is over, attempt++
UsAfterSleep(u) == UsLoop([u EXCEPT !.attempt = @ + 1])

\* orchestrator.ts 341-346
UsAfterSettle(u, r) ==
  IF ~r.ok THEN [u EXCEPT !.pc = "rejected"]
  ELSE UsReturn(u, TRUE, "Succeeded")

(***************************************************************************)
(* runLpOperatorFlow (LP): orchestrator.ts 382-457                         *)
(***************************************************************************)
LP_MAX_ATTEMPTS == 120

LpIdle ==
  [ pc |-> "idle", invoice |-> "", paymentHash |-> EmptyHex, payFailed |-> FALSE,
    attempt |-> 0, finalStatus |-> "Timeout", preimage |-> None,
    calls |-> <<>>, endReply |-> None, result |-> None ]

LpCall(l, c) == [l EXCEPT !.calls = Append(@, c)]

LpReturn(l, status) == [l EXCEPT !.pc = "done", !.result = Some(status)]

\* a JS string that is neither undefined, null nor ''
TruthyOrEmpty(o) == IsSome(o)

Truthy(o) == IsSome(o) /\ Get(o) # EmptyHex

\* orchestrator.ts 439: the guard in front of the claim
LpClaimsOn(status) == status = "Succeeded"

\* orchestrator.ts 439-450: after the loop
LpAfterLoop(l) ==
  IF ~LpClaimsOn(l.finalStatus) THEN LpReturn(l, l.finalStatus)
  ELSE IF ~Truthy(l.preimage) THEN [l EXCEPT !.pc = "rejected"]
  ELSE LpCall([l EXCEPT !.pc = "htlcScan"],
              [fn |-> "htlcScan", payment_hash |-> l.paymentHash])

\* orchestrator.ts 422-423: the loop's test, then the next getPaymentPreimage
LpLoop(l) ==
  IF l.attempt < LP_MAX_ATTEMPTS
  THEN [l EXCEPT !.pc = "getPaymentPreimage"]
  ELSE LpAfterLoop(l)

\* orchestrator.ts 390-411: decode returned, issue pay
LpAfterDecode(l, r) ==
  IF ~r.ok THEN [l EXCEPT !.pc = "rejected"]
  ELSE IF ~IsSome(r.value.amt_msat) THEN [l EXCEPT !.pc = "rejected"]
  ELSE LpCall([l EXCEPT !.pc = "pay", !.paymentHash = r.value.payment_hash],
              [fn |-> "pay", invoice |-> l.invoice])

\* orchestrator.ts 413: a failed payment ends the flow
PayEndsFlowNever(status) == FALSE

PayEndsFlow(status) == status = "Failed"

\* orchestrator.ts 411-423: pay returned
LpAfterPay(l, r) ==
  IF ~r.ok THEN [l EXCEPT !.pc = "rejected"]
  ELSE LET v == [l EXCEPT !.payFailed = (r.value = "Failed")]
       IN IF PayEndsFlow(r.value) THEN LpReturn(v, "Failed")
          ELSE LpLoop([v EXCEPT !.finalStatus = "Timeout", !.preimage = None, !.attempt = 0])

\* orchestrator.ts 423-436: one answer of getPaymentPreimage
LpAfterPoll(l, r) ==
  IF ~r.ok THEN [l EXCEPT !.pc = "rejected"]
  ELSE LET v == [l EXCEPT !.finalStatus = r.value.status]
           e == [v EXCEPT !.endReply = Some(r.value)]
       IN IF r.value.status = "Succeeded"
          THEN IF Truthy(r.value.preimage)
               THEN LpAfterLoop([e EXCEPT !.preimage = r.value.preimage])
               ELSE [v EXCEPT !.preimage = r.value.preimage, !.pc = "sleep"]
          ELSE IF r.value.status \in {"Cancelled", "Failed"}
          THEN LpAfterLoop(e)
          ELSE [v EXCEPT !.pc = "sleep"]

\* orchestrator.ts 436, 422: the pause is over, attempt++
LpAfterSleep(l) == LpLoop([l EXCEPT !.attempt = @ + 1])

\* orchestrator.ts 450-454: htlcScan returned, issue htlcClaim
LpAfterScan(l, r) ==
  IF ~r.ok THEN [l EXCEPT !.pc = "rejected"]
  ELSE LpCall([l EXCEPT !.pc = "htlcClaim"],
              [ fn |-> "htlcClaim", payment_hash |-> l.paymentHash,
                preimage |-> Get(l.preimage) ])

\* orchestrator.ts 454-456
LpAfterClaim(l, r) ==
  IF ~r.ok THEN [l EXCEPT !.pc = "rejected"]
  ELSE LpReturn(l, "Succeeded")

(***************************************************************************)
(* buildHtlcRedeemScript: the P2WSH HTLC of the legacy flow                *)
(***************************************************************************)
\* bitcoin.script.number.encode(tLock): little-endian bytes, as many as the
\* magnitude needs with the sign bit left clear
RECURSIVE LEBytes(_, _)
LEBytes(value, size) ==
  IF size = 0 THEN <<>> ELSE <<value % 256>> \o LEBytes(value \div 256, size - 1)

scriptNumSize(i) ==
  IF i > 8388607 THEN 4 ELSE IF i > 32767 THEN 3 ELSE IF i > 127 THEN 2
  ELSE IF i > 0 THEN 1 ELSE 0

scriptNumEncode(n) == LEBytes(n, scriptNumSize(n))

\* what OP_CHECKLOCKTIMEVERIFY reads off the stack
RECURSIVE scriptNumDecode(_)
scriptNumDecode(bytes) ==
  IF bytes = <<>> THEN 0 ELSE Head(bytes) + 256 * scriptNumDecode(Tail(bytes))

\* strings beside the 64-character hex ones: "zz", "abc" and "ab"
NonHexString == 900
OddHexString == 901
OneByteString == 902

\* claim.ts 29: preimageHex.match(/^[0-9a-fA-F]*$/)
MatchesHexRegex(hex) == hex # NonHexString

\* crypto.ts 150-152: Buffer.from(hex, 'hex') decodes the whole byte pairs in
\* front of the first character that is no hex digit
hexToBuffer(hex) ==
  IF hex = NonHexString THEN EmptyHex
  ELSE IF hex = OddHexString THEN OneByteString
  ELSE hex

\* buffer.length
BufferLength(buf) == IF buf = EmptyHex THEN 0 ELSE IF buf = OneByteString THEN 1 ELSE 32

\* htlc.ts 33: /^[0-9a-fA-F]{64}$/.test(H_hex)
Matches64Hex(hex) == hex \notin {EmptyHex, NonHexString, OddHexString, OneByteString}

\* pubkey strings: "02aabb" and "03ccdd" stand for the 66 hex characters of a
\* compressed key, "02zzzz" for 02 and 64 characters that are no hex digits,
\* "04eeff" for 66 hex characters starting with 04, "02aa" for a hex string
\* of 4 characters
PubkeyStrings == {"02aabb", "03ccdd", "02zzzz", "04eeff", "02aa"}

IsHexDigits(hex) == hex # "02zzzz"
HasLength66(hex) == hex # "02aa"
StartsWith02or03(hex) == hex # "04eeff"

\* crypto.ts 164-174, with expectedLength = 33
isValidHex33(hex) == IsHexDigits(hex) /\ HasLength66(hex)

\* crypto.ts 179-186
isValidCompressedPubkey(hex) == isValidHex33(hex) /\ StartsWith02or03(hex)

\* htlc.ts 37, 41: 66 characters starting with 02 or 03
ValidPubkey(hex) == HasLength66(hex) /\ StartsWith02or03(hex)

\* htlc.ts 47-48: hexToBuffer of a pubkey string stops at the first character
\* that is no hex digit
pubkeyBuffer(hex) == IF hex = "02zzzz" THEN "02" ELSE hex

\* htlc.ts (unnamed/part_011) 26-73: the compiled script, or the throw
buildHtlcRedeemScript(H_hex, lpPubkeyHex, userPubkeyHex, tLock) ==
  IF ~Matches64Hex(H_hex) \/ ~ValidPubkey(lpPubkeyHex) \/ ~ValidPubkey(userPubkeyHex)
  THEN None
  ELSE Some([ H |-> hexToBuffer(H_hex), lpPubkey |-> pubkeyBuffer(lpPubkeyHex),
              userPubkey |-> pubkeyBuffer(userPubkeyHex),
              lockTimeBuffer |-> scriptNumEncode(tLock) ])

\* bitcoin.crypto.sha256 of a compiled script
scriptSha256(script) == <<"sha256", script>>

\* a 20-byte digest of the script in the place of the 32-byte one
scriptHash160(script) == <<"hash160", script>>

\* htlc.ts 96-110: the bech32 address of the witness program SHA256(redeemScript)
p2wshAddress(redeemScript) == <<"bcrt1q", scriptSha256(redeemScript)>>

\* bitcoin.address.toOutputScript of a bech32 (version 0) or bech32m (version
\* 1) address: the version opcode and the witness program
toOutputScript(address) ==
  IF address[1] = "bcrt1p" THEN <<"OP_1", address[2]>> ELSE <<"OP_0", address[2]>>

\* the output script over the 20-byte digest
witnessScriptPubkeyHash160(redeemScript) == <<"OP_0", scriptHash160(redeemScript)>>

\* refund.ts 80-81: script.compile([OP_0, sha256(redeemScript)])
witnessScriptPubkey(redeemScript) == <<"OP_0", scriptSha256(redeemScript)>>

(***************************************************************************)
(* claimWithPreimage (claim.ts) and buildRefundPsbtBase64 (refund.ts)      *)
(***************************************************************************)
\* a 32-bit unsigned value as its two 16-bit halves
U32(hi, lo) == <<hi, lo>>

ESTIMATED_FEE == 1000

\* bitcoin.address.toOutputScript(address, network) succeeds
ValidAddress(address) ==
  address \in {"bcrt1qlpclaim", "bcrt1quserrefund", "bcrt1phtlc", "bcrt1pown"}

\* claim.ts 60-72: the input spends with sequence 0xffffffff
ClaimSequence == U32(65535, 65535)

\* claim.ts 29-120: the transaction handed to sendRawTransaction, or the throw
ClaimTx(utxo, redeemScript, preimageHex, lpClaimAddress) ==
  IF ~MatchesHexRegex(preimageHex) \/ preimageHex = EmptyHex THEN None
  ELSE IF ~ValidAddress(lpClaimAddress) THEN None
  ELSE IF utxo.value - ESTIMATED_FEE <= 1000 THEN None
  ELSE Some([ version |-> 2, locktime |-> 0,
              ins |-> <<[txid |-> utxo.txid, vout |-> utxo.vout, sequence |-> ClaimSequence]>>,
              outs |-> <<[address |-> lpClaimAddress, value |-> utxo.value - ESTIMATED_FEE]>>,
              witness |-> <<"LP_sig", hexToBuffer(preimageHex), 1, redeemScript>> ])

\* refund.ts 101-102: psbt.setLocktime(tLockHeight)
RefundLocktimeZero(tLockHeight) == 0

RefundLocktime(tLockHeight) == tLockHeight

\* refund.ts 30-59: what runs before the awaited getRawTransaction
RefundPrecheck(utxo, userRefundAddress) ==
  ValidAddress(userRefundAddress) /\ ~(utxo.value - ESTIMATED_FEE <= 1000)

\* refund.ts 61-131: the PSBT
RefundPsbt(utxo, redeemScript, userRefundAddress, tLockHeight) ==
  [ locktime |-> RefundLocktime(tLockHeight),
    ins |-> <<[txid |-> utxo.txid, vout |-> utxo.vout, sequence |-> U32(65535, 65534),
               witnessScript |-> redeemScript,
               witnessUtxo |-> [script |-> witnessScriptPubkey(redeemScript),
                                value |-> utxo.value]]>>,
    outs |-> <<[address |-> userRefundAddress, value |-> utxo.value - ESTIMATED_FEE]>>,
    tLockHeight |-> tLockHeight ]

(***************************************************************************)
(* runSwap (legacy): orchestrator.ts 463-699                               *)
(***************************************************************************)
SWAP_MAX_ATTEMPTS == 60

LP_PUBKEY == "03ccdd"
LP_CLAIM_ADDRESS == "bcrt1qlpclaim"

SwIdle ==
  [ pc |-> "idle", H |-> EmptyHex, tipHeight |-> 0, tLock |-> 0, script |-> None, funding |-> None,
    attempt |-> 0, finalStatus |-> "Pending", preimage |-> None,
    calls |-> <<>>, result |-> None, sendReply |-> None, error |-> <<>>,
    expires_at |-> 0, now |-> None ]

SwCall(x, c) == [x EXCEPT !.calls = Append(@, c)]

\* the messages bitcoind rejects a transaction with
NodeErrors == {"bad-txns-inputs-missingorspent", "min relay fee not met"}
NodeRejects == {[ok |-> FALSE, message |-> m] : m \in NodeErrors}

\* a message that leaves the node's error out
BroadcastErrorGeneric(r) == <<"Failed to broadcast claim transaction">>

\* claim.ts 131-133: `Failed to broadcast claim transaction: ${error}`
BroadcastError(r) == <<"Failed to broadcast claim transaction: ", r.message>>

\* orchestrator.ts 689-698: the catch turns every throw into a result
SwError(x) == [x EXCEPT !.pc = "done", !.result = Some([success |-> FALSE, kind |-> "error"])]

\* orchestrator.ts 574-577, 651-654: the preimage must hash to H
PreimageVerified(preimage, H) == sha256hex(preimage) = H

\* orchestrator.ts 572-588, 649-665: verify, then claimWithPreimage up to its
\* awaited sendRawTransaction
SwClaim(x) ==
  IF ~PreimageVerified(Get(x.preimage), x.H) THEN SwError(x)
  ELSE LET tx == ClaimTx(Get(x.funding), Get(x.script), Get(x.preimage), LP_CLAIM_ADDRESS)
       IN IF ~IsSome(tx)
          THEN SwError(SwCall(x, [fn |-> "claimWithPreimage", tx |-> None]))
          ELSE SwCall([x EXCEPT !.pc = "sendRawTransaction"],
                      [fn |-> "claimWithPreimage", tx |-> tx])

\* orchestrator.ts 595-600, 614-619, 672-677: the tLockHeight handed to
\* buildRefundPsbtBase64
RefundHeight(x, c) == x.tLock

\* buildRefundPsbtBase64 up to its awaited getRawTransaction
SwRefund(x, c, prm) ==
  IF ~RefundPrecheck(Get(x.funding), prm.userRefundAddress)
  THEN SwError(SwCall(x, [fn |-> "buildRefundPsbtBase64", tLockHeight |-> RefundHeight(x, c)]))
  ELSE SwCall([x EXCEPT !.pc = "getRawTransaction"],
              [fn |-> "buildRefundPsbtBase64", tLockHeight |-> RefundHeight(x, c)])

\* orchestrator.ts 592: what a claim that did not go through leads to
AfterFailedClaimRefunds(x, c, prm) == SwRefund(x, c, prm)

AfterFailedClaim(x, c, prm) == SwError(x)

\* orchestrator.ts 571-630: after the loop
SwAfterLoop(x, c, prm) ==
  IF x.finalStatus = "Succeeded" /\ Truthy(x.preimage) THEN SwClaim(x)
  ELSE SwRefund(x, c, prm)

\* orchestrator.ts 545-547: the loop's test, then the next getPaymentPreimage
SwLoop(x, c, prm) ==
  IF x.attempt < SWAP_MAX_ATTEMPTS THEN [x EXCEPT !.pc = "getPaymentPreimage"]
  ELSE SwAfterLoop(x, c, prm)

\* orchestrator.ts 473-501: decode returned
SwAfterDecode(x, r) ==
  IF ~r.ok THEN SwError(x)
  ELSE IF ~IsSome(r.value.amt_msat) THEN SwError(x)
  ELSE IF r.value.payment_hash = EmptyHex THEN SwError(x)
  ELSE SwCall([x EXCEPT !.pc = "getBlockCount", !.H = r.value.payment_hash,
                       !.expires_at = r.value.timestamp + r.value.expiry_sec],
              [fn |-> "getBlockCount"])

\* the test without the truthiness guard
InvoiceExpiredAlways(expires_at, now) == expires_at <= now

\* orchestrator.ts 508: expires_at && expires_at <= Date.now() / 1000
InvoiceExpired(expires_at, now) == expires_at # 0 /\ expires_at <= now

\* orchestrator.ts 501-529: the tip is known: tLock, the HTLC, wait for funding
SwAfterBlockCount(x, c, prm, r, now) ==
  IF ~r.ok THEN SwError(x)
  ELSE IF InvoiceExpired(x.expires_at, now) THEN SwError([x EXCEPT !.now = Some(now)])
  ELSE LET tLock == r.value + c.LOCKTIME_BLOCKS
           script == buildHtlcRedeemScript(x.H, LP_PUBKEY, prm.userRefundPubkeyHex, tLock)
       IN IF ~IsSome(script) THEN SwError([x EXCEPT !.tLock = tLock, !.now = Some(now)])
          ELSE SwCall([x EXCEPT !.pc = "waitForFunding", !.tipHeight = r.value,
                               !.now = Some(now),
                               !.tLock = tLock, !.script = script],
                      [fn |-> "waitForFunding", address |-> p2wshAddress(Get(script))])

\* orchestrator.ts 529-534
SwAfterFunding(x, prm, r) ==
  IF ~r.ok THEN SwError(x)
  ELSE SwCall([x EXCEPT !.pc = "pay", !.funding = Some(r.value)],
              [fn |-> "pay", invoice |-> prm.invoice])

\* orchestrator.ts 534-547, 631-638, 669-677: pay returned
SwAfterPay(x, c, prm, r) ==
  IF ~r.ok THEN SwError(x)
  ELSE IF r.value = "Pending"
  THEN SwLoop([x EXCEPT !.finalStatus = "Pending", !.preimage = None, !.attempt = 0], c, prm)
  ELSE IF r.value = "Succeeded" THEN [x EXCEPT !.pc = "fetchPreimage"]
  ELSE SwRefund(x, c, prm)

\* orchestrator.ts 547-568: one answer of getPaymentPreimage in the loop
SwAfterPoll(x, c, prm, r) ==
  IF ~r.ok THEN [x EXCEPT !.pc = "sleep"]
  ELSE LET v == [x EXCEPT !.finalStatus = r.value.status]
       IN IF r.value.status = "Succeeded"
          THEN IF Truthy(r.value.preimage)
               THEN SwAfterLoop([v EXCEPT !.preimage = r.value.preimage], c, prm)
               ELSE [v EXCEPT !.preimage = r.value.preimage, !.pc = "sleep"]
          ELSE IF r.value.status \in {"Cancelled", "Failed"}
          THEN SwAfterLoop(v, c, prm)
          ELSE [v EXCEPT !.pc = "sleep"]

\* orchestrator.ts 564-567, 545: the pause is over, attempt++
SwAfterSleep(x, c, prm) == SwLoop([x EXCEPT !.attempt = @ + 1], c, prm)

\* orchestrator.ts 636-665: immediate success, the one getPaymentPreimage
SwAfterFetch(x, r) ==
  IF ~r.ok THEN SwError(x)
  ELSE IF ~Truthy(r.value.preimage) THEN SwError(x)
  ELSE SwClaim([x EXCEPT !.preimage = r.value.preimage])

\* orchestrator.ts 582-591, claim.ts 123-133: sendRawTransaction returned
SwAfterSendRaw(x, c, prm, r) ==
  IF ~r.ok
  THEN AfterFailedClaim([x EXCEPT !.sendReply = Some(r), !.error = BroadcastError(r)], c, prm)
  ELSE [x EXCEPT !.pc = "done", !.sendReply = Some(r),
                 !.result = Some([success |-> TRUE, kind |-> "txid"])]

\* refund.ts 67-131, orchestrator.ts 602-610: the PSBT is built and returned
SwAfterGetRawTx(x) ==
  [x EXCEPT !.pc = "done", !.result = Some([success |-> FALSE, kind |-> "psbt"])]

-----------------------------------------------------------------------------
(* The collaborators' answers.                                             *)

MaxAttempts == 2

Hashes == {sha256hex(p) : p \in Preimages}

\* GET payment details: any status, either direction, or an error
GetPaymentReplies ==
  {Ok([inbound |-> i, status |-> s]) : i \in BOOLEAN, s \in HTLCStatus} \cup {Thrown}

\* The preimages the RLN node can report for `hash`: any (free), or only one
\* an invoiceSettle request for that hash carried (faithful).
ReportablePreimages(hash) ==
  IF collab = "faithful"
  THEN {Some(s.payment_preimage) : s \in {x \in rlnSettled : x.payment_hash = hash}}
  ELSE {Some(p) : p \in Preimages}

GetPaymentPreimageReplies(hash) ==
  {Ok([status |-> s, preimage |-> p]) :
      s \in HTLCStatus, p \in {None, Some(EmptyHex)} \cup ReportablePreimages(hash)}
    \cup {Thrown}

\* decode: the hash the invoice was created for (faithful), any hash and a
\* missing amount otherwise
DecodeReplies(invoice) ==
  IF collab = "faithful"
  THEN {Ok([payment_hash |-> r.payment_hash, amt_msat |-> Some(1500000)]) :
           r \in {x \in store[1] : x.invoice = invoice}} \cup {Thrown}
  ELSE {Ok([payment_hash |-> h, amt_msat |-> a]) :
           h \in Hashes, a \in {None, Some(1500000)}} \cup {Thrown}

\* The invoices the LP is started with: the published one (faithful), any otherwise
LpInvoices ==
  IF collab = "faithful"
  THEN IF IsSome(submarineRequest[1]) /\ IsSome(fundingData[1])
       THEN {Get(submarineRequest[1]).invoice} ELSE {}
  ELSE {"lnbc1dummy"}

-----------------------------------------------------------------------------
(* Actions of runUserSettleHodlInvoice                                     *)

UserSettleBegin ==
  /\ us.pc = "idle"
  /\ \E h \in Hashes, m \in 0..MaxAttempts :
       us' = UsCall([us EXCEPT !.pc = "getHodlRecord", !.paymentHash = h, !.maxAttempts = m],
                    [fn |-> "getHodlRecord", payment_hash |-> h])
  /\ UNCHANGED <<coinVars, moreVars, swapVars, cfg, depParams, depVars, collab, rlnSettled, lp>>

UserSettleLoadReturn ==
  /\ us.pc = "getHodlRecord"
  /\ us' = UsAfterLoad(us, getHodlRecord(store[1], us.paymentHash))
  /\ rlnSettled' = rlnSettled \cup
        {c \in {us'.calls[i] : i \in 1..Len(us'.calls)} : c.fn = "invoiceSettle"}
  /\ UNCHANGED <<coinVars, moreVars, swapVars, cfg, depParams, depVars, collab, lp>>

UserSettleGetPaymentReturn ==
  /\ us.pc = "getPayment"
  /\ \E r \in GetPaymentReplies : us' = UsAfterGetPayment(us, r)
  /\ rlnSettled' = rlnSettled \cup
        {c \in {us'.calls[i] : i \in 1..Len(us'.calls)} : c.fn = "invoiceSettle"}
  /\ UNCHANGED <<coinVars, moreVars, swapVars, cfg, depParams, depVars, collab, lp>>

UserSettleSleepReturn ==
  /\ us.pc = "sleep"
  /\ us' = UsAfterSleep(us)
  /\ rlnSettled' = rlnSettled \cup
        {c \in {us'.calls[i] : i \in 1..Len(us'.calls)} : c.fn = "invoiceSettle"}
  /\ UNCHANGED <<coinVars, moreVars, swapVars, cfg, depParams, depVars, collab, lp>>

UserSettleInvoiceSettleReturn ==
  /\ us.pc = "invoiceSettle"
  /\ \E r \in {Ok("void"), Thrown} : us' = UsAfterSettle(us, r)
  /\ UNCHANGED <<coinVars, moreVars, swapVars, cfg, depParams, depVars, collab, rlnSettled, lp>>

(* Actions of runLpOperatorFlow                                            *)

LpBegin ==
  /\ lp.pc = "idle"
  /\ \E inv \in LpInvoices :
       lp' = LpCall([lp EXCEPT !.pc = "decode", !.invoice = inv],
                    [fn |-> "decode", invoice |-> inv])
  /\ UNCHANGED <<coinVars, moreVars, swapVars, cfg, depParams, depVars, collab, rlnSettled, us>>

LpDecodeReturn ==
  /\ lp.pc = "decode"
  /\ \E r \in DecodeReplies(lp.invoice) : lp' = LpAfterDecode(lp, r)
  /\ UNCHANGED <<coinVars, moreVars, swapVars, cfg, depParams, depVars, collab, rlnSettled, us>>

LpPayReturn ==
  /\ lp.pc = "pay"
  /\ \E r \in {Ok(s) : s \in HTLCStatus} \cup {Thrown} : lp' = LpAfterPay(lp, r)
  /\ UNCHANGED <<coinVars, moreVars, swapVars, cfg, depParams, depVars, collab, rlnSettled, us>>

LpPollReturn ==
  /\ lp.pc = "getPaymentPreimage"
  /\ \E r \in GetPaymentPreimageReplies(lp.paymentHash) : lp' = LpAfterPoll(lp, r)
  /\ UNCHANGED <<coinVars, moreVars, swapVars, cfg, depParams, depVars, collab, rlnSettled, us>>

LpSleepReturn ==
  /\ lp.pc = "sleep"
  /\ lp' = LpAfterSleep(lp)
  /\ UNCHANGED <<coinVars, moreVars, swapVars, cfg, depParams, depVars, collab, rlnSettled, us>>

LpScanReturn ==
  /\ lp.pc = "htlcScan"
  /\ \E r \in {Ok("void"), Thrown} : lp' = LpAfterScan(lp, r)
  /\ UNCHANGED <<coinVars, moreVars, swapVars, cfg, depParams, depVars, collab, rlnSettled, us>>

LpClaimReturn ==
  /\ lp.pc = "htlcClaim"
  /\ \E r \in {Ok("void"), Thrown} : lp' = LpAfterClaim(lp, r)
  /\ UNCHANGED <<coinVars, moreVars, swapVars, cfg, depParams, depVars, collab, rlnSettled, us>>

(* Actions of runSwap                                                      *)

TipHeights == {0, 122, 5000}
SwapFundings == {[txid |-> "fundtx", vout |-> 0, value |-> v] : v \in {1200, 2000, 2001, 10000}}

\* timestamp and expiry_sec of a decoded invoice, and Date.now() / 1000
InvoiceTimes == {<<0, 0>>, <<1000, 420>>}
ClockTimes == {1000, 1420}

SwapBegin ==
  /\ sw.pc = "idle"
  /\ broadcasts = {} /\ psbts = {}
  /\ sw' = SwCall([sw EXCEPT !.pc = "decode"], [fn |-> "decode", invoice |-> swParams.invoice])
  /\ UNCHANGED <<coinVars, moreVars, cfg, depParams, depVars, splitVars, swParams, broadcasts, psbts>>

SwapDecodeReturn ==
  /\ sw.pc = "decode"
  /\ \E r \in {Ok([payment_hash |-> h, amt_msat |-> a, timestamp |-> e[1],
                     expiry_sec |-> e[2]]) :
                  h \in Hashes \cup {EmptyHex}, a \in {None, Some(3000000)},
                  e \in InvoiceTimes} \cup {Thrown} :
       sw' = SwAfterDecode(sw, r)
  /\ UNCHANGED <<coinVars, moreVars, cfg, depParams, depVars, splitVars, swParams, broadcasts, psbts>>

SwapBlockCountReturn ==
  /\ sw.pc = "getBlockCount"
  /\ \E r \in {Ok(t) : t \in TipHeights} \cup {Thrown}, now \in ClockTimes :
       sw' = SwAfterBlockCount(sw, cfg, swParams, r, now)
  /\ UNCHANGED <<coinVars, moreVars, cfg, depParams, depVars, splitVars, swParams, broadcasts, psbts>>

SwapFundingReturn ==
  /\ sw.pc = "waitForFunding"
  /\ \E r \in {Ok(f) : f \in SwapFundings} \cup {Thrown} :
       sw' = SwAfterFunding(sw, swParams, r)
  /\ UNCHANGED <<coinVars, moreVars, cfg, depParams, depVars, splitVars, swParams, broadcasts, psbts>>

\* the transaction the last call of `x` handed to sendRawTransaction
IssuedBroadcasts(x, y) ==
  IF y.pc = "sendRawTransaction" /\ x.pc # "sendRawTransaction"
  THEN {Get(y.calls[Len(y.calls)].tx)} ELSE {}

SwapPayReturn ==
  /\ sw.pc = "pay"
  /\ \E r \in {Ok(s) : s \in HTLCStatus} \cup {Thrown} :
       sw' = SwAfterPay(sw, cfg, swParams, r)
  /\ broadcasts' = broadcasts \cup IssuedBroadcasts(sw, sw')
  /\ UNCHANGED <<coinVars, moreVars, cfg, depParams, depVars, splitVars, swParams, psbts>>

SwapPollReturn ==
  /\ sw.pc = "getPaymentPreimage"
  /\ \E r \in GetPaymentPreimageReplies(sw.H) : sw' = SwAfterPoll(sw, cfg, swParams, r)
  /\ broadcasts' = broadcasts \cup IssuedBroadcasts(sw, sw')
  /\ UNCHANGED <<coinVars, moreVars, cfg, depParams, depVars, splitVars, swParams, psbts>>

SwapSleepReturn ==
  /\ sw.pc = "sleep"
  /\ sw' = SwAfterSleep(sw, cfg, swParams)
  /\ broadcasts' = broadcasts \cup IssuedBroadcasts(sw, sw')
  /\ UNCHANGED <<coinVars, moreVars, cfg, depParams, depVars, splitVars, swParams, psbts>>

SwapFetchReturn ==
  /\ sw.pc = "fetchPreimage"
  /\ \E r \in GetPaymentPreimageReplies(sw.H) : sw' = SwAfterFetch(sw, r)
  /\ broadcasts' = broadcasts \cup IssuedBroadcasts(sw, sw')
  /\ UNCHANGED <<coinVars, moreVars, cfg, depParams, depVars, splitVars, swParams, psbts>>

SwapSendRawReturn ==
  /\ sw.pc = "sendRawTransaction"
  /\ \E r \in {Ok("txid")} \cup NodeRejects : sw' = SwAfterSendRaw(sw, cfg, swParams, r)
  /\ UNCHANGED <<coinVars, moreVars, cfg, depParams, depVars, splitVars, swParams, broadcasts, psbts>>

\* getRawTransaction's answer is only looked at for a log line
SwapGetRawTxReturn ==
  /\ sw.pc = "getRawTransaction"
  /\ sw' = SwAfterGetRawTx(sw)
  /\ psbts' = psbts \cup
        {RefundPsbt(Get(sw.funding), Get(sw.script), swParams.userRefundAddress,
                    sw.calls[Len(sw.calls)].tLockHeight)}
  /\ UNCHANGED <<coinVars, moreVars, cfg, depParams, depVars, splitVars, swParams, broadcasts>>

(* The builders called on their own                                         *)

PreimageStrings ==
  Preimages \cup {EmptyHex, NonHexString, OddHexString, OneByteString}

DirectClaimWithPreimage ==
  /\ sw.pc = "idle"
  /\ broadcasts = {} /\ psbts = {}
  /\ \E f \in SwapFundings, h \in Hashes, t \in TipHeights, p \in PreimageStrings :
       LET script == buildHtlcRedeemScript(h, LP_PUBKEY, swParams.userRefundPubkeyHex,
                                           t + cfg.LOCKTIME_BLOCKS)
           tx == ClaimTx(f, Get(script), p, LP_CLAIM_ADDRESS)
       IN /\ IsSome(script)
          /\ IsSome(tx)
          /\ broadcasts' = {Get(tx)}
  /\ UNCHANGED <<coinVars, moreVars, cfg, depParams, depVars, splitVars, swParams, sw, psbts>>

DirectBuildRefundPsbt ==
  /\ sw.pc = "idle"
  /\ broadcasts = {} /\ psbts = {}
  /\ \E f \in SwapFundings, h \in Hashes, t \in TipHeights, height \in TipHeights :
       LET script == buildHtlcRedeemScript(h, LP_PUBKEY, swParams.userRefundPubkeyHex,
                                           t + cfg.LOCKTIME_BLOCKS)
       IN /\ IsSome(script)
          /\ RefundPrecheck(f, swParams.userRefundAddress)
          /\ psbts' = {RefundPsbt(f, Get(script), swParams.userRefundAddress, height)}
  /\ UNCHANGED <<coinVars, moreVars, cfg, depParams, depVars, splitVars, swParams, sw, broadcasts>>

(***************************************************************************)
(* The handoff channel: comm-server.ts (unnamed/part_002)                  *)
(***************************************************************************)
Resources == {"submarine", "rgbinvoicehtlc", "funding"}

\* comm-server.ts 16-18: the slot of a resource (None is null)
SlotOf(res) ==
  CASE res = "submarine" -> submarineRequest[1]
    [] res = "rgbinvoicehtlc" -> rgbInvoiceHtlcResponse[1]
    [] res = "funding" -> fundingData[1]

\* comm-server.ts 45, 74, 102: what a GET says while the slot is null
NotYetPayload(res) ==
  CASE res = "submarine" ->
         [error |-> "No submarine request available yet; waiting for USER publish."]
    [] res = "rgbinvoicehtlc" ->
         [error |-> "No rgbinvoicehtlc response available yet; waiting for LP publish."]
    [] res = "funding" ->
         [error |-> "No funding data available yet; waiting for USER publish."]

\* comm-server.ts 41-49, 69-78, 98-106: GET: always 200, slot ?? {error}
HttpGet(slot, res) ==
  [status |-> 200, body |-> IF IsSome(slot) THEN slot ELSE Some(NotYetPayload(res))]

\* A request body: text that JSON.parse rejects, or a JSON value (None is null)
InvalidJson == [parses |-> FALSE, value |-> None]
Json(v) == [parses |-> TRUE, value |-> v]

\* comm-server.ts 28-37, 56-65, 85-94: POST: slot = JSON.parse(body), 400 on a throw
SlotAfterPostOfAnyBody(slot, body) == body.value

SlotAfterPost(slot, body) == IF body.parses THEN body.value ELSE slot
PostStatus(body) == IF body.parses THEN 200 ELSE 400

\* The objects the roles publish
SubmarineRequests ==
  {[invoice |-> "lnbc1dummy", userRefundPubkeyHex |-> k] : k \in {"02aabb", "03ccdd"}}
FundingDatas == {[fundingTxid |-> "fundtx", fundingVout |-> v] : v \in {0, 1}}
RgbPosts ==
  {[invoice |-> "rgb:invoice", htlc_p2tr_script_pubkey |-> Some("5120aa"),
    htlc_p2tr_address |-> a, t_lock |-> Some(TipHeight + 300)] :
      a \in {Some("bcrt1paa"), None}}

ObjectsOf(res) ==
  CASE res = "submarine" -> SubmarineRequests
    [] res = "rgbinvoicehtlc" -> RgbPosts
    [] res = "funding" -> FundingDatas

PostBodies(res) == {Json(Some(o)) : o \in ObjectsOf(res)} \cup {Json(None), InvalidJson}

\* The three slots with one of them replaced
SlotsWith(res, v) ==
  /\ submarineRequest' =
       IF res = "submarine" THEN [w \in Worlds |-> v] ELSE submarineRequest
  /\ rgbInvoiceHtlcResponse' =
       IF res = "rgbinvoicehtlc" THEN [w \in Worlds |-> v] ELSE rgbInvoiceHtlcResponse
  /\ fundingData' = IF res = "funding" THEN [w \in Worlds |-> v] ELSE fundingData

\* comm-server.ts 23-39, 51-67, 80-96: a POST from anyone who reaches the port
HttpPostOf(res, body) ==
  /\ SlotsWith(res, SlotAfterPost(SlotOf(res), body))
  /\ published' = IF body.parses THEN [published EXCEPT ![res] = Some(body.value)]
                  ELSE published
  /\ UNCHANGED <<cfg, depParams, dep, store, splitVars, swapVars, uw, hw, wf, coinVars>>

HttpPost ==
  \E res \in Resources : \E body \in PostBodies(res) :
    HttpPostOf(res, body) /\ UNCHANGED http

\* the same POST, its request and the status of its answer noted in http
HttpPostNoted ==
  \E res \in Resources : \E body \in PostBodies(res) :
    /\ HttpPostOf(res, body)
    /\ http' = Some([res |-> res, body |-> body, status |-> PostStatus(body)])

\* comm-server.ts 140-148: publishSubmarineRequest(data), publishFundingData(data)
PublishLocal ==
  \E res \in {"submarine", "funding"} : \E data \in ObjectsOf(res) :
    /\ SlotsWith(res, Some(data))
    /\ published' = [published EXCEPT ![res] = Some(Some(data))]
    /\ UNCHANGED <<cfg, depParams, dep, store, splitVars, swapVars, uw, hw, wf, coinVars, http>>

(***************************************************************************)
(* The handoff waits: comm-client.ts (unnamed/part_005) and                *)
(* waitForRgbInvoiceHtlcResponse of comm-server.ts                         *)
(***************************************************************************)
MAX_BACKOFF_MS == 10000
JITTER_MS == 250

HandoffMaxAttempts == 3

WaitFns ==
  {"waitForSubmarineData", "waitForSubmarineRequest", "waitForFundingData",
   "waitForRgbInvoiceHtlcResponse"}

\* The resource a wait polls
ResourceOf(fn) ==
  CASE fn \in {"waitForSubmarineData", "waitForSubmarineRequest"} -> "submarine"
    [] fn = "waitForFundingData" -> "funding"
    [] fn = "waitForRgbInvoiceHtlcResponse" -> "rgbinvoicehtlc"

HwIdle ==
  [ pc |-> "idle", fn |-> "", maxAttempts |-> 0, pollIntervalMs |-> 0, i |-> 0,
    delayMs |-> 0, polls |-> 0, delays |-> <<>>, jitter |-> 0,
    response |-> None, slotWasNull |-> FALSE,
    value |-> None, error |-> None ]

\* An Error: axios errors carry a code, the others do not
Err(code, message) == [code |-> code, message |-> message]
Failed(code) == [ok |-> FALSE, code |-> code]

Returned(v) == [threw |-> FALSE, value |-> v, error |-> Err("", "")]
Threw(e) == [threw |-> TRUE, value |-> None, error |-> e]

\* comm-client.ts 18-27, 57-64: fetchSubmarineRequest, fetchFundingData
fetchSlot(r) ==
  IF ~r.ok THEN Threw(Err(r.code, "request failed"))
  ELSE LET data == r.value.body
       IN IF IsSome(data) /\ "error" \in DOMAIN Get(data)
          THEN Threw(Err("", Get(data).error))
          ELSE Returned(data)

\* comm-client.ts 101-112
assertSubmarineData(data) ==
  /\ IsSome(data)
  /\ {"invoice", "fundingTxid", "fundingVout", "userRefundPubkeyHex", "paymentHash"}
       \subseteq DOMAIN Get(data)

\* comm-client.ts 114-127: null on 204, the checked payload on 200
fetchSubmarineData(r) ==
  IF ~r.ok THEN Threw(Err(r.code, "request failed"))
  ELSE IF r.value.status = 204 THEN Returned(None)
  ELSE IF ~assertSubmarineData(r.value.body)
  THEN Threw(Err("", "Invalid submarine payload received."))
  ELSE Returned(r.value.body)

HwReturn(h, v) == [h EXCEPT !.pc = "returned", !.value = v]
HwThrow(h, e) == [h EXCEPT !.pc = "threw", !.error = Some(e)]

\* comm-client.ts 148-152: the errors the loop keeps retrying on
Transient(code) == code \in {"ECONNABORTED", "ECONNREFUSED", "ECONNRESET"}

\* comm-client.ts 33, 70, 136: the loop's test, then the next GET
HwLoop(h) ==
  IF h.i < h.maxAttempts THEN [h EXCEPT !.pc = "fetch", !.polls = @ + 1]
  ELSE HwThrow(h, Err("", "Failed to retrieve"))

\* comm-server.ts 154-160: the loop of waitForRgbInvoiceHtlcResponse
HwLoopRgb(h, slot) ==
  IF h.i < h.maxAttempts
  THEN LET v == [h EXCEPT !.polls = @ + 1, !.slotWasNull = ~IsSome(slot)]
       IN IF IsSome(slot) THEN HwReturn(v, slot) ELSE [v EXCEPT !.pc = "sleep"]
  ELSE HwThrow(h, Err("", "Failed to retrieve rgbinvoicehtlc response."))

\* comm-client.ts 34-43, 71-80: waitForSubmarineRequest, waitForFundingData
AfterFetchSlot(h, r) ==
  LET f == fetchSlot(r)
  IN IF ~f.threw THEN HwReturn(h, f.value)
     ELSE IF h.i < h.maxAttempts - 1 THEN [h EXCEPT !.pc = "sleep"]
     ELSE HwThrow(h, f.error)

\* comm-client.ts 160-166: past the last attempt leave the loop, else sleep
HwPause(h, jitter) ==
  IF h.i >= h.maxAttempts - 1
  THEN HwThrow(h, Err("", "Failed to retrieve submarine data"))
  ELSE [h EXCEPT !.pc = "sleep", !.delays = Append(@, h.delayMs), !.jitter = jitter]

\* comm-client.ts 137-166: waitForSubmarineData, one answer of fetchSubmarineData
AfterFetchData(h, r, jitter) ==
  LET f == fetchSubmarineData(r)
  IN IF ~f.threw
     THEN IF IsSome(f.value) THEN HwReturn(h, f.value) ELSE HwPause(h, jitter)
     ELSE IF ~Transient(f.error.code)
          THEN IF h.i >= h.maxAttempts - 1 THEN HwThrow(h, f.error)
               ELSE HwPause(h, jitter)
          ELSE HwPause(h, jitter)

\* comm-client.ts 168: delayMs = Math.min(Math.floor(delayMs * 1.2), MAX_BACKOFF_MS)
NextDelay(delayMs) ==
  IF (delayMs * 12) \div 10 < MAX_BACKOFF_MS THEN (delayMs * 12) \div 10
  ELSE MAX_BACKOFF_MS

\* the pause is over
HwAfterSleep(h, slot) ==
  LET v == [h EXCEPT !.i = @ + 1]
  IN IF h.fn = "waitForRgbInvoiceHtlcResponse" THEN HwLoopRgb(v, slot)
     ELSE IF h.fn = "waitForSubmarineData"
     THEN HwLoop([v EXCEPT !.delayMs = NextDelay(@)])
     ELSE HwLoop(v)

PollIntervals == {0, 2000, 9000, 20000}

\* What the old server or the network answers waitForSubmarineData
SubmarineDataReplies ==
  {Ok([status |-> 204, body |-> None]),
   Ok([status |-> 200, body |-> Some([invoice |-> "lnbc1dummy", fundingTxid |-> "fundtx",
                                       fundingVout |-> 0, userRefundPubkeyHex |-> "02aabb",
                                       paymentHash |-> 103])]),
   Ok([status |-> 200, body |-> Some([invoice |-> "lnbc1dummy"])]),
   Failed("ECONNABORTED"), Failed("ECONNREFUSED"), Failed("ECONNRESET"),
   Failed("ERR_BAD_RESPONSE")}

\* What a GET of the comm server brings back: its answer, or no connection
SlotReplies(res) == {Ok(HttpGet(SlotOf(res), res)), Failed("ECONNREFUSED")}

HandoffWaitBegin ==
  /\ hw.pc = "idle"
  /\ \E fn \in WaitFns, m \in 0..HandoffMaxAttempts, p \in PollIntervals :
       /\ fn # "waitForSubmarineData" => p = 2000
       /\ LET h == [hw EXCEPT !.fn = fn, !.maxAttempts = m, !.pollIntervalMs = p,
                              !.delayMs = p]
          IN hw' = IF fn = "waitForRgbInvoiceHtlcResponse"
                   THEN HwLoopRgb(h, SlotOf("rgbinvoicehtlc")) ELSE HwLoop(h)
  /\ UNCHANGED <<coreVars, uw, published, http, wf, coinVars>>

HandoffFetchReturn ==
  /\ hw.pc = "fetch"
  /\ IF hw.fn = "waitForSubmarineData"
     THEN \E r \in SubmarineDataReplies, jitter \in {0, JITTER_MS - 1} :
            hw' = AfterFetchData([hw EXCEPT !.response = Some(r)], r, jitter)
     ELSE \E r \in SlotReplies(ResourceOf(hw.fn)) :
            hw' = AfterFetchSlot([hw EXCEPT !.response = Some(r),
                                           !.slotWasNull = ~IsSome(SlotOf(ResourceOf(hw.fn)))], r)
  /\ UNCHANGED <<coreVars, uw, published, http, wf, coinVars>>

HandoffSleepReturn ==
  /\ hw.pc = "sleep"
  /\ hw' = HwAfterSleep(hw, SlotOf("rgbinvoicehtlc"))
  /\ UNCHANGED <<coreVars, uw, published, http, wf, coinVars>>

(***************************************************************************)
(* runUserWaitInvoiceStatus (USER): orchestrator.ts 352-377                *)
(***************************************************************************)
InvoiceStatuses == {"Pending", "Succeeded", "Cancelled", "Failed", "Expired"}

UwIdle ==
  [ pc |-> "idle", maxAttempts |-> 0, attempt |-> 0, status |-> "Timeout",
    result |-> None ]

\* orchestrator.ts 359-360, 376: the loop's test, then the next invoiceStatus
UwLoop(u) ==
  IF u.attempt < u.maxAttempts THEN [u EXCEPT !.pc = "invoiceStatus"]
  ELSE [u EXCEPT !.pc = "done", !.result = Some(u.status)]

\* orchestrator.ts 360-373: one answer of invoiceStatus
UwAfterStatus(u, r) ==
  IF ~r.ok THEN [u EXCEPT !.pc = "rejected"]
  ELSE IF r.value \in {"Succeeded", "Cancelled", "Failed", "Expired"}
  THEN [u EXCEPT !.status = r.value, !.pc = "done", !.result = Some(r.value)]
  ELSE [u EXCEPT !.status = r.value, !.pc = "sleep"]

\* orchestrator.ts 373, 359: the pause is over, attempt++
UwAfterSleep(u) == UwLoop([u EXCEPT !.attempt = @ + 1])

UserWaitBegin ==
  /\ uw.pc = "idle"
  /\ \E m \in 0..MaxAttempts : uw' = UwLoop([uw EXCEPT !.maxAttempts = m])
  /\ UNCHANGED <<coreVars, published, http, hw, wf, coinVars>>

UserWaitStatusReturn ==
  /\ uw.pc = "invoiceStatus"
  /\ \E r \in {Ok(s) : s \in InvoiceStatuses} \cup {Thrown} : uw' = UwAfterStatus(uw, r)
  /\ UNCHANGED <<coreVars, published, http, hw, wf, coinVars>>

UserWaitSleepReturn ==
  /\ uw.pc = "sleep"
  /\ uw' = UwAfterSleep(uw)
  /\ UNCHANGED <<coreVars, published, http, hw, wf, coinVars>>

(***************************************************************************)
(* waitForFunding: bitcoin/watch.ts 15-96                                  *)
(***************************************************************************)
FUNDING_MAX_ATTEMPTS == 60

HtlcAddress == "bcrt1phtlc"
WalletAddress == "bcrt1qwallet"

\* Unspent outputs the node may know: the HTLC output (watched, not spendable
\* by the wallet), the change of the deposit and an older wallet output.
\* amount counts units of 0.00000001 BTC
NodeOutputs ==
  { [txid |-> "fundtx", vout |-> 1, address |-> HtlcAddress, amount |-> 1500,
     confirmations |-> 3, height |-> 101, spendable |-> FALSE],
    [txid |-> "fundtx", vout |-> 0, address |-> WalletAddress, amount |-> 48000,
     confirmations |-> 3, height |-> 101, spendable |-> TRUE],
    [txid |-> "wallettx", vout |-> 0, address |-> WalletAddress, amount |-> 50000,
     confirmations |-> 6, height |-> 98, spendable |-> TRUE] }

WfIdle ==
  [ pc |-> "idle", address |-> "", minConfs |-> 0, chain |-> {}, utxos |-> <<>>,
    attempt |-> 0, polls |-> 0, rpcOk |-> FALSE, result |-> None, error |-> None ]

\* watch.ts 36, 83: Math.round(amount * 100000000), amount in BTC
BtcToSats(amount) == amount

RECURSIVE TotalAmount(_)
TotalAmount(outs) ==
  IF outs = {} THEN 0
  ELSE LET o == CHOOSE o \in outs : TRUE IN o.amount + TotalAmount(outs \ {o})

\* The sequences that list every element of a set once
Orderings(S) ==
  {s \in [1..Cardinality(S) -> S] : {s[i] : i \in 1..Cardinality(S)} = S}

\* rpc.ts 127-130: scantxoutset answers with total_amount and the outputs;
\* Bitcoin Core names the list `unspents`, so result.utxos is undefined (None)
\* there; the other answers carry the list watch.ts 28-36 reads
ScanReplies(chain, address) ==
  LET outs == {o \in chain : o.address = address}
  IN {Thrown, Ok([total_amount |-> TotalAmount(outs), utxos |-> None])}
       \cup {Ok([total_amount |-> TotalAmount(outs),
                 utxos |-> Some([i \in 1..Len(s) |->
                                   [txid |-> s[i].txid, height |-> s[i].height,
                                    combo |-> s[i].amount]])]) :
               s \in Orderings(outs)}

\* rpc.ts 119-121: getrawtransaction(txid, true), null, or a failure
RawTxReplies(chain, txid) ==
  {Thrown, Ok(None)} \cup {Ok(Some([confirmations |-> o.confirmations])) :
                             o \in {o \in chain : o.txid = txid}}

\* rpc.ts 132-138: listunspent of the wallet, in any order
ListUnspentReplies(chain) == {Thrown} \cup {Ok(s) : s \in Orderings(chain)}

WfReturn(x, utxo) == [x EXCEPT !.pc = "returned", !.result = Some(utxo)]
WfThrow(x, message) == [x EXCEPT !.pc = "threw", !.error = Some(message)]

\* watch.ts 55-57: the fallback begins with importAddress
WfFallback(x) == [x EXCEPT !.pc = "importAddress"]

\* watch.ts 31-33: the next utxo of the scan, or past the loop
WfNextUtxo(x) ==
  IF x.utxos = <<>> THEN WfFallback(x) ELSE [x EXCEPT !.pc = "getRawTransaction"]

\* watch.ts 22-31, 51-53
WfAfterScan(x, r) ==
  IF ~r.ok THEN WfFallback(x)
  ELSE IF r.value.total_amount > 0
  THEN WfNextUtxo([x EXCEPT !.utxos = IF IsSome(r.value.utxos)
                                      THEN Get(r.value.utxos) ELSE <<>>])
  ELSE WfFallback(x)

\* watch.ts 33-47: vout = utxo.height, value from utxo.combo
WfAfterRawTx(x, r) ==
  LET utxo == Head(x.utxos)
      rest == [x EXCEPT !.utxos = Tail(@)]
  IN IF ~r.ok THEN WfNextUtxo(rest)
     ELSE IF IsSome(r.value) /\ Get(r.value).confirmations >= x.minConfs
     THEN WfReturn(x, [txid |-> utxo.txid,
                       vout |-> IF utxo.height # 0 THEN utxo.height ELSE 0,
                       value |-> BtcToSats(utxo.combo)])
     ELSE WfNextUtxo(rest)

\* watch.ts 64-66, 95: the loop's test, then listUnspent, or the timeout
WfPoll(x) ==
  IF x.attempt < FUNDING_MAX_ATTEMPTS
  THEN [x EXCEPT !.pc = "listUnspent", !.polls = @ + 1]
  ELSE WfThrow(x, "Timeout waiting for funding confirmation")

\* watch.ts 67-72: the first utxo that is spendable, confirmed and not empty
FirstQualifying(unspent, minConfs) ==
  LET I == {i \in 1..Len(unspent) :
              /\ unspent[i].spendable
              /\ unspent[i].confirmations >= minConfs
              /\ unspent[i].amount > 0}
  IN IF I = {} THEN None
     ELSE Some(unspent[CHOOSE i \in I : \A j \in I : i <= j])

\* watch.ts 66-91
WfAfterListUnspent(x, r) ==
  IF ~r.ok THEN [x EXCEPT !.pc = "sleep"]
  ELSE LET funding == FirstQualifying(r.value, x.minConfs)
       IN IF IsSome(funding)
          THEN WfReturn(x, [txid |-> Get(funding).txid, vout |-> Get(funding).vout,
                            value |-> BtcToSats(Get(funding).amount)])
          ELSE [x EXCEPT !.pc = "sleep"]

\* watch.ts 64: attempt++
NextAttemptStuck(attempt) == attempt

NextAttempt(attempt) == attempt + 1

\* watch.ts 91, 64
WfAfterSleep(x) == WfPoll([x EXCEPT !.attempt = NextAttempt(@)])

WfSaw(x, r) == [x EXCEPT !.rpcOk = @ \/ r.ok]

WaitForFundingBegin ==
  /\ wf.pc = "idle"
  /\ \E chain \in SUBSET NodeOutputs, minConfs \in {1, 6} :
       wf' = [wf EXCEPT !.pc = "scanTxOutSet", !.address = HtlcAddress,
                        !.minConfs = minConfs, !.chain = chain]
  /\ UNCHANGED <<coreVars, uw, published, http, hw, coinVars>>

WfScanReturn ==
  /\ wf.pc = "scanTxOutSet"
  /\ \E r \in ScanReplies(wf.chain, wf.address) : wf' = WfAfterScan(WfSaw(wf, r), r)
  /\ UNCHANGED <<coreVars, uw, published, http, hw, coinVars>>

WfRawTxReturn ==
  /\ wf.pc = "getRawTransaction"
  /\ \E r \in RawTxReplies(wf.chain, Head(wf.utxos).txid) :
       wf' = WfAfterRawTx(WfSaw(wf, r), r)
  /\ UNCHANGED <<coreVars, uw, published, http, hw, coinVars>>

\* watch.ts 56-60: importAddress, whose failure is ignored
WfImportReturn ==
  /\ wf.pc = "importAddress"
  /\ \E r \in {Ok(None), Thrown} : wf' = WfPoll(WfSaw(wf, r))
  /\ UNCHANGED <<coreVars, uw, published, http, hw, coinVars>>

WfListUnspentReturn ==
  /\ wf.pc = "listUnspent"
  /\ \E r \in ListUnspentReplies(wf.chain) : wf' = WfAfterListUnspent(WfSaw(wf, r), r)
  /\ UNCHANGED <<coreVars, uw, published, http, hw, coinVars>>

WfSleepReturn ==
  /\ wf.pc = "sleep"
  /\ wf' = WfAfterSleep(wf)
  /\ UNCHANGED <<coreVars, uw, published, http, hw, coinVars>>

(***************************************************************************)
(* Coin selection: bitcoin/utxo_utils.ts                                   *)
(***************************************************************************)
DUST_LIMIT_SAT == 330
DUST_LIMIT_P2WPKH_SAT == 546
TX_OVERHEAD_VBYTES == 10
P2TR_INPUT_VBYTES == 58
P2TR_OUTPUT_VBYTES == 43
P2WPKH_INPUT_VBYTES == 68
P2WPKH_OUTPUT_VBYTES == 31

MaxUtxos == 3

\* utxo_utils.ts 44, 48: Math.ceil(vbytes * feeRate). The fee rate is counted
\* in halves of a sat/vB (feeRate2 = 2 * feeRate), which a double holds
\* exactly, so the product is exact and the ceiling is that of vbytes*feeRate2/2
CeilFee(vbytes, feeRate2) == (vbytes * feeRate2 + 1) \div 2

\* utxo_utils.ts 35: [...utxos].sort((a, b) => b.valueSat - a.valueSat); the
\* sort is stable: u goes behind the elements that are not smaller
RECURSIVE InsertDesc(_, _)
InsertDesc(sorted, u) ==
  IF sorted = <<>> THEN <<u>>
  ELSE IF Head(sorted).valueSat >= u.valueSat
  THEN <<Head(sorted)>> \o InsertDesc(Tail(sorted), u)
  ELSE <<u>> \o sorted

SortUnsorted(utxos) == utxos

RECURSIVE SortDesc(_)
SortDesc(utxos) ==
  IF utxos = <<>> THEN <<>>
  ELSE InsertDesc(SortDesc(SubSeq(utxos, 1, Len(utxos) - 1)), utxos[Len(utxos)])

InsufficientFunds == [ok |-> FALSE, selected |-> <<>>, feeSat |-> 0, changeSat |-> 0]

\* utxo_utils.ts 45: if (changeTwo >= dustLimit)
KeepsChangeAlways(changeTwo, dustLimit) == changeTwo >= 0

KeepsChange(changeTwo, dustLimit) == changeTwo >= dustLimit

\* utxo_utils.ts 53: if (changeOne >= 0)
CoversFeeNearly(changeOne) == changeOne + DUST_LIMIT_SAT >= 0

CoversFee(changeOne) == changeOne >= 0

\* utxo_utils.ts 39-62: the loop from the n-th utxo of `sorted` on, `total`
\* being the value of the n - 1 utxos selected so far
RECURSIVE selectLoop(_, _, _, _)
selectLoop(sorted, n, total, p) ==
  IF n > Len(sorted) THEN InsufficientFunds
  ELSE LET t == total + sorted[n].valueSat
           feeTwoOutputs == TX_OVERHEAD_VBYTES + n * p.inputVbytes + 2 * p.outputVbytes
           changeTwo == t - p.amountSat - CeilFee(feeTwoOutputs, p.feeRate2)
           feeOneOutput == TX_OVERHEAD_VBYTES + n * p.inputVbytes + p.outputVbytes
           changeOne == t - p.amountSat - CeilFee(feeOneOutput, p.feeRate2)
       IN IF KeepsChange(changeTwo, p.dustLimit)
          THEN [ok |-> TRUE, selected |-> SubSeq(sorted, 1, n),
                feeSat |-> CeilFee(feeTwoOutputs, p.feeRate2), changeSat |-> changeTwo]
          ELSE IF CoversFee(changeOne)
          THEN [ok |-> TRUE, selected |-> SubSeq(sorted, 1, n),
                feeSat |-> CeilFee(feeOneOutput, p.feeRate2), changeSat |-> 0]
          ELSE selectLoop(sorted, n + 1, t, p)

\* utxo_utils.ts 27-65
selectUtxos(utxos, amountSat, feeRate2, inputVbytes, outputVbytes, dustLimit) ==
  selectLoop(SortDesc(utxos), 1, 0,
             [amountSat |-> amountSat, feeRate2 |-> feeRate2, inputVbytes |-> inputVbytes,
              outputVbytes |-> outputVbytes, dustLimit |-> dustLimit])

\* utxo_utils.ts 67-74
selectUtxosP2TR(utxos, amountSat, feeRate2) ==
  selectUtxos(utxos, amountSat, feeRate2, P2TR_INPUT_VBYTES, P2TR_OUTPUT_VBYTES,
              DUST_LIMIT_SAT)

\* utxo_utils.ts 76-90
selectUtxosP2WPKH(utxos, amountSat, feeRate2) ==
  selectUtxos(utxos, amountSat, feeRate2, P2WPKH_INPUT_VBYTES, P2WPKH_OUTPUT_VBYTES,
              DUST_LIMIT_P2WPKH_SAT)

(***************************************************************************)
(* sendDepositTransaction: bitcoin/deposit.ts (unnamed/part_009 1-127)     *)
(***************************************************************************)
\* deposit.ts 61-72: the taproot payment derived from config.WIF
OwnTaprootAddress == "bcrt1pown"
OwnScriptPubkey == "5120ab"

\* String.prototype.toLowerCase on the script strings of the model
ToLowerCase(hex) ==
  CASE hex = "5120AB" -> "5120ab"
    [] hex = "5120Ab" -> "5120ab"
    [] OTHER -> hex

\* utxo_utils.ts 20-25: 0 for an amount that is no finite number (None), else
\* Math.round(amount * SATS_PER_BTC); amounts count units of 0.00000001 BTC
btcToSat(amountBtc) == IF IsSome(amountBtc) THEN Get(amountBtc) ELSE 0

\* deposit.ts 31-37: the SpendableUtxo of one entry of result.unspents
SpendableOf(unspent) ==
  [ txid |-> unspent.txid, vout |-> unspent.vout,
    valueSat |-> btcToSat(unspent.amount), script_pubkey_hex |-> unspent.scriptPubKey ]

\* deposit.ts 73-77: the filter on the script, compared in lower case
MatchesAnyScript(utxo, expectedScriptPubkey) == TRUE

MatchesScript(utxo, expectedScriptPubkey) ==
  /\ IsSome(utxo.script_pubkey_hex)
  /\ ToLowerCase(Get(utxo.script_pubkey_hex)) = ToLowerCase(expectedScriptPubkey)

FilterSeq(s, Keep(_)) ==
  LET RECURSIVE F(_)
      F(t) == IF t = <<>> THEN <<>>
              ELSE IF Keep(Head(t)) THEN <<Head(t)>> \o F(Tail(t)) ELSE F(Tail(t))
  IN F(s)

\* deposit.ts 22-38, 73-77: fetchUtxosForAddress and the filter
OwnUtxos(result) ==
  LET unspents == IF IsSome(result.unspents) THEN Get(result.unspents) ELSE <<>>
      mapped == [i \in 1..Len(unspents) |-> SpendableOf(unspents[i])]
      Keep(u) == MatchesScript(u, OwnScriptPubkey)
  IN FilterSeq(mapped, Keep)

SdIdle ==
  [ pc |-> "idle", address |-> "", amountSat |-> 0, feeRate2 |-> 0,
    scanned |-> <<>>, utxos |-> <<>>, selection |-> InsufficientFunds,
    psbt |-> None, calls |-> <<>>, result |-> None, error |-> "", sendReply |-> None ]

SdReject(x, message) == [x EXCEPT !.pc = "rejected", !.error = message]

\* deposit.ts 99: if (selection.changeSat >= DUST_LIMIT_SAT)
AddsChange(selection) == selection.changeSat >= DUST_LIMIT_SAT

\* deposit.ts 85-98 without 99-101: the payment alone
DepositPsbtNoChange(address, amountSat, selection) ==
  [ ins |-> [i \in 1..Len(selection.selected) |->
               [txid |-> selection.selected[i].txid, vout |-> selection.selected[i].vout,
                script |-> OwnScriptPubkey, value |-> selection.selected[i].valueSat]],
    outs |-> <<[address |-> address, value |-> amountSat]>>,
    signed |-> FALSE ]

\* deposit.ts 85-101: the PSBT: one input per selected utxo, the payment, the change
DepositPsbt(address, amountSat, selection) ==
  [ ins |-> [i \in 1..Len(selection.selected) |->
               [txid |-> selection.selected[i].txid, vout |-> selection.selected[i].vout,
                script |-> OwnScriptPubkey, value |-> selection.selected[i].valueSat]],
    outs |-> <<[address |-> address, value |-> amountSat]>>
               \o IF AddsChange(selection)
                  THEN <<[address |-> OwnTaprootAddress, value |-> selection.changeSat]>>
                  ELSE <<>>,
    signed |-> FALSE ]

\* deposit.ts 109-114: sign, finalize, extract, toHex
SignedHex(psbt) == [psbt EXCEPT !.signed = TRUE]

\* deposit.ts 50-73: the checks in front of the scan
SdBeginChecks(x, address, amountSat, wif, feeRate2) ==
  IF address = "" THEN SdReject(x, "address must be a non-empty string")
  ELSE IF ~NumberIsInteger(amountSat) \/ amountSat <= 0
  THEN SdReject(x, "amountSat must be a positive integer")
  ELSE IF ~wif THEN SdReject(x, "WIF is required for local funding")
  ELSE [x EXCEPT !.pc = "scanTxOutSet", !.address = address, !.amountSat = amountSat,
                 !.feeRate2 = feeRate2,
                 !.calls = Append(@, [fn |-> "scanTxOutSet", address |-> OwnTaprootAddress])]

\* deposit.ts 73-116: the scan returned: filter, select, build, sign, broadcast
SdAfterScan(x, r) ==
  IF ~r.ok THEN SdReject(x, "scanTxOutSet")
  ELSE LET utxos == OwnUtxos(r.value)
           v == [x EXCEPT !.utxos = utxos,
                          !.scanned = IF IsSome(r.value.unspents)
                                      THEN Get(r.value.unspents) ELSE <<>>]
       IN IF Len(utxos) = 0
          THEN SdReject(v, "No UTXOs found for the taproot address derived from WIF")
          ELSE LET selection == selectUtxosP2TR(utxos, x.amountSat, x.feeRate2)
               IN IF ~selection.ok
                  THEN SdReject(v, "Insufficient funds for requested amount + fee")
                  ELSE IF ~ValidAddress(x.address)
                  THEN SdReject([v EXCEPT !.selection = selection], "addOutput")
                  ELSE LET psbt == DepositPsbt(x.address, x.amountSat, selection)
                       IN [v EXCEPT !.pc = "sendRawTransaction",
                                    !.selection = selection, !.psbt = Some(psbt),
                                    !.calls = Append(@, [fn |-> "sendRawTransaction",
                                                         hex |-> SignedHex(psbt)])]

\* deposit.ts 116-126
SdAfterSend(x, r) ==
  IF ~r.ok THEN SdReject([x EXCEPT !.sendReply = Some(r)], r.message)
  ELSE [x EXCEPT !.pc = "done", !.sendReply = Some(r),
                 !.result = Some([ txid |-> "deposittx", hex |-> SignedHex(Get(x.psbt)),
                                   psbt_base64 |-> Get(x.psbt),
                                   fee_sat |-> x.selection.feeSat,
                                   input_count |-> Len(x.selection.selected),
                                   change_sat |-> x.selection.changeSat,
                                   change_address |-> OwnTaprootAddress ])]

UtxoValues == {50, 600, 1500}
SelectAmounts == {330, 1000, 2000}
FeeRates2 == {0, 2, 5, 6}

\* Lists of at most MaxUtxos utxos of the given values
UtxoLists(values) ==
  UNION {{[i \in 1..n |-> [txid |-> "tx", vout |-> i, valueSat |-> s[i]]] :
            s \in [1..n -> values]} : n \in 0..MaxUtxos}

\* What scantxoutset may answer: entries of any script, an amount or none
ScannedEntries ==
  {[amount |-> a, scriptPubKey |-> s] :
     a \in {Some(600), Some(1500), None},
     s \in {Some("5120ab"), Some("5120AB"), Some("5120cd"), None}}

ScanResults ==
  {[unspents |-> None]} \cup
  UNION {{[unspents |-> Some([i \in 1..n |->
                                [txid |-> "tx", vout |-> i, amount |-> s[i].amount,
                                 scriptPubKey |-> s[i].scriptPubKey]])] :
            s \in [1..n -> ScannedEntries]} : n \in 0..2}

SelIdle ==
  [ done |-> FALSE, utxos |-> <<>>, amountSat |-> 0, feeRate2 |-> 0,
    inputVbytes |-> 0, outputVbytes |-> 0, dustLimit |-> 0, result |-> InsufficientFunds ]

\* A direct call of selectUtxosP2TR, selectUtxosP2WPKH or selectUtxos
DirectSelectUtxos ==
  /\ ~sel.done /\ sd.pc = "idle"
  /\ \E utxos \in UtxoLists(UtxoValues), amountSat \in SelectAmounts,
        feeRate2 \in FeeRates2,
        k \in {<<P2TR_INPUT_VBYTES, P2TR_OUTPUT_VBYTES, DUST_LIMIT_SAT>>,
               <<P2WPKH_INPUT_VBYTES, P2WPKH_OUTPUT_VBYTES, DUST_LIMIT_P2WPKH_SAT>>,
               <<P2TR_INPUT_VBYTES, P2TR_OUTPUT_VBYTES, 0>>} :
       sel' = [ done |-> TRUE, utxos |-> utxos, amountSat |-> amountSat,
                feeRate2 |-> feeRate2, inputVbytes |-> k[1], outputVbytes |-> k[2],
                dustLimit |-> k[3],
                result |-> selectUtxos(utxos, amountSat, feeRate2, k[1], k[2], k[3]) ]
  /\ UNCHANGED <<coreVars, moreVars, sd, hb, run>>

SendDepositBegin ==
  /\ sd.pc = "idle" /\ ~sel.done
  /\ \E address \in {"", "not-an-address", HtlcAddress}, amountSat \in {0, 330, 1000, HalfSatAmount, NotANumber},
        wif \in BOOLEAN, feeRate2 \in {2, 5} :
       sd' = SdBeginChecks(sd, address, amountSat, wif, feeRate2)
  /\ UNCHANGED <<coreVars, moreVars, sel, hb, run>>

SendDepositScanReturn ==
  /\ sd.pc = "scanTxOutSet"
  /\ \E r \in {Ok(v) : v \in ScanResults} \cup {Thrown} : sd' = SdAfterScan(sd, r)
  /\ UNCHANGED <<coreVars, moreVars, sel, hb, run>>

SendDepositSendReturn ==
  /\ sd.pc = "sendRawTransaction"
  /\ \E r \in {Ok("deposittx")} \cup NodeRejects : sd' = SdAfterSend(sd, r)
  /\ UNCHANGED <<coreVars, moreVars, sel, hb, run>>

(***************************************************************************)
(* The taproot HTLC (htlc_p2tr.ts), after the contract's description       *)
(***************************************************************************)
\* the x-only form of a compressed key: the 32 bytes after the prefix byte
xOnly(pubkeyHex) == IF pubkeyHex = "02aabb" THEN "aabb" ELSE "ccdd"

buildClaimTapscript(paymentHash, lpPubkeyHex) ==
  <<"OP_SHA256", paymentHash, "OP_EQUALVERIFY", xOnly(lpPubkeyHex), "OP_CHECKSIG">>

buildRefundTapscript(cltvExpiry, userPubkeyHex) ==
  <<scriptNumEncode(cltvExpiry), "OP_CHECKLOCKTIMEVERIFY", "OP_DROP",
    xOnly(userPubkeyHex), "OP_CHECKSIG">>

\* the internal key the output key is a tweak of
InternalKey == "internal_key"

\* BIP341: the internal key tweaked by the Merkle root of the two leaves
TaprootOutputKey(paymentHash, lpPubkeyHex, userPubkeyHex, cltvExpiry) ==
  <<"tweak", InternalKey,
    {buildClaimTapscript(paymentHash, lpPubkeyHex),
     <<buildRefundTapscript(cltvExpiry, userPubkeyHex)>>}>>

buildP2TRHTLC(paymentHash, lpPubkeyHex, userPubkeyHex, cltvExpiry) ==
  IF ~Matches64Hex(paymentHash) \/ ~isValidCompressedPubkey(lpPubkeyHex)
       \/ ~isValidCompressedPubkey(userPubkeyHex)
  THEN None
  ELSE Some([ taproot_address |->
                <<"bcrt1p", TaprootOutputKey(paymentHash, lpPubkeyHex, userPubkeyHex, cltvExpiry)>>,
              internal_key_hex |-> InternalKey ])

reconstructP2TRScriptPubKey(template) ==
  <<"OP_1", TaprootOutputKey(template.payment_hash, template.lp_pubkey,
                             template.user_pubkey, template.cltv_expiry)>>

(***************************************************************************)
(* An HTLC contract built from its parameters, and its output script       *)
(* recomputed from them                                                     *)
(***************************************************************************)
HbIdle ==
  [ pc |-> "idle", variant |-> "", H |-> EmptyHex, lpPubkey |-> "", userPubkey |-> "",
    tLock |-> 0, script |-> None, address |-> None, again |-> None,
    reconstructed |-> None ]

HashStrings == Hashes \cup {EmptyHex, NonHexString, OddHexString, OneByteString}
TimeLocks == {0, 127, 128, 500, 5300}

\* buildHtlcRedeemScript called on its own: the script and the address, or the throw
BuildSegwitHtlc ==
  /\ hb.pc = "idle"
  /\ \E h \in HashStrings, lpKey \in PubkeyStrings, user \in PubkeyStrings, t \in TimeLocks :
       LET script == buildHtlcRedeemScript(h, lpKey, user, t)
       IN hb' = [hb EXCEPT !.pc = IF IsSome(script) THEN "built" ELSE "threw",
                           !.variant = "segwit-v0",
                           !.H = h, !.lpPubkey = lpKey, !.userPubkey = user, !.tLock = t,
                           !.script = script,
                           !.address = IF IsSome(script)
                                       THEN Some(p2wshAddress(Get(script))) ELSE None]
  /\ UNCHANGED <<coreVars, moreVars, sd, sel, run>>

\* the contract built once more from the same parameters, and the output
\* script buildRefundPsbtBase64 recomputes from the redeem script
ReconstructSegwit ==
  /\ hb.pc = "built" /\ hb.variant = "segwit-v0"
  /\ LET script == buildHtlcRedeemScript(hb.H, hb.lpPubkey, hb.userPubkey, hb.tLock)
     IN hb' = [hb EXCEPT !.pc = "reconstructed",
                         !.again = Some([script |-> Get(script),
                                         address |-> p2wshAddress(Get(script))]),
                         !.reconstructed = Some(witnessScriptPubkey(Get(script)))]
  /\ UNCHANGED <<coreVars, moreVars, sd, sel, run>>

BuildTaprootHtlc ==
  /\ hb.pc = "idle"
  /\ \E h \in HashStrings, lpKey \in PubkeyStrings, user \in PubkeyStrings, t \in TimeLocks :
       LET result == buildP2TRHTLC(h, lpKey, user, t)
       IN hb' = [hb EXCEPT !.pc = IF IsSome(result) THEN "built" ELSE "threw",
                           !.variant = "taproot",
                           !.H = h, !.lpPubkey = lpKey, !.userPubkey = user, !.tLock = t,
                           !.address = IF IsSome(result)
                                       THEN Some(Get(result).taproot_address) ELSE None]
  /\ UNCHANGED <<coreVars, moreVars, sd, sel, run>>

\* htlc_p2tr.test.ts 43-58: built once more, and reconstructP2TRScriptPubKey
\* of the template
ReconstructTaproot ==
  /\ hb.pc = "built" /\ hb.variant = "taproot"
  /\ LET result == buildP2TRHTLC(hb.H, hb.lpPubkey, hb.userPubkey, hb.tLock)
         template == [payment_hash |-> hb.H, lp_pubkey |-> hb.lpPubkey,
                      user_pubkey |-> hb.userPubkey, cltv_expiry |-> hb.tLock]
     IN hb' = [hb EXCEPT !.pc = "reconstructed",
                         !.again = Some([script |-> None,
                                         address |-> Get(result).taproot_address]),
                         !.reconstructed = Some(reconstructP2TRScriptPubKey(template))]
  /\ UNCHANGED <<coreVars, moreVars, sd, sel, run>>


-----------------------------------------------------------------------------
(* Specifications                                                          *)

Configs ==
  [ LOCKTIME_BLOCKS : {6, 150, 151, 300},
    HODL_EXPIRY_SEC : {3600, 86400},
    MIN_CONFS : {1} ]

DepositParamSets ==
  [ amountSat : {0, 329, 330, 1500, HalfSatAmount, NotANumber}, userRefundPubkeyHex : {"02aabb"} ]

SwapParamSets ==
  [ invoice : {"lnbc1dummy"}, userRefundPubkeyHex : {"02aabb", "04eeff"},
    userRefundAddress : {"bcrt1quserrefund", "notanaddress"} ]

DefaultSwapParams ==
  [ invoice |-> "lnbc1dummy", userRefundPubkeyHex |-> "02aabb",
    userRefundAddress |-> "bcrt1quserrefund" ]

\* Records earlier runDeposit executions left in the store
StoredRecords ==
  {[payment_hash |-> sha256hex(p), preimage |-> p, invoice |-> "lnbc1dummy"] : p \in Preimages}

InitCommon ==
  /\ dep = [w \in Worlds |-> DepIdle]
  /\ submarineRequest = [w \in Worlds |-> None]
  /\ rgbInvoiceHtlcResponse = [w \in Worlds |-> None]
  /\ fundingData = [w \in Worlds |-> None]
  /\ rlnSettled = {}
  /\ us = UsIdle
  /\ lp = LpIdle
  /\ sw = SwIdle
  /\ broadcasts = {}
  /\ psbts = {}
  /\ uw = UwIdle
  /\ published = [res \in Resources |-> None]
  /\ hw = HwIdle
  /\ wf = WfIdle
  /\ sd = SdIdle
  /\ sel = SelIdle
  /\ hb = HbIdle
  /\ run = [n |-> 1, rgbPostedIn |-> 0]
  /\ http = None

\* runDeposit alone, in two worlds, against arbitrary collaborators
InitDeposit ==
  /\ InitCommon
  /\ swParams \in {DefaultSwapParams}
  /\ cfg \in Configs
  /\ depParams \in DepositParamSets
  /\ store = [w \in Worlds |-> {}]
  /\ collab = "free"

NextDeposit ==
  \/ DepositBegin
  \/ DepositInvoiceHodlReturn
  \/ DepositPersistReturn
  \/ PostRgbInvoiceHtlc
  \/ DepositWaitRgbReturn
  \/ DepositSendDepositReturn
  \/ DepositWaitFundingReturn
  \/ DepositSendAssetReturn
  \/ DepositWaitConfReturn
  \/ DepositRefreshReturn

SpecDeposit == InitDeposit /\ [][NextDeposit]_vars

\* runUserSettleHodlInvoice alone, against an arbitrary RLN node
InitUserSettle ==
  /\ InitCommon
  /\ swParams \in {DefaultSwapParams}
  /\ cfg = [LOCKTIME_BLOCKS |-> 300, HODL_EXPIRY_SEC |-> 86400, MIN_CONFS |-> 1]
  /\ depParams = [amountSat |-> 1500, userRefundPubkeyHex |-> "02aabb"]
  /\ store \in [Worlds -> SUBSET StoredRecords]
  /\ collab = "free"

NextUserSettle ==
  \/ UserSettleBegin
  \/ UserSettleLoadReturn
  \/ UserSettleGetPaymentReturn
  \/ UserSettleSleepReturn
  \/ UserSettleInvoiceSettleReturn

SpecUserSettle == InitUserSettle /\ [][NextUserSettle]_vars

\* runLpOperatorFlow alone, against an arbitrary RLN node
InitLpOperator ==
  /\ InitCommon
  /\ swParams \in {DefaultSwapParams}
  /\ cfg = [LOCKTIME_BLOCKS |-> 300, HODL_EXPIRY_SEC |-> 86400, MIN_CONFS |-> 1]
  /\ depParams = [amountSat |-> 1500, userRefundPubkeyHex |-> "02aabb"]
  /\ store = [w \in Worlds |-> {}]
  /\ collab = "free"

NextLpOperator ==
  \/ LpBegin
  \/ LpDecodeReturn
  \/ LpPayReturn
  \/ LpPollReturn
  \/ LpSleepReturn
  \/ LpScanReturn
  \/ LpClaimReturn

SpecLpOperator == InitLpOperator /\ [][NextLpOperator]_vars

\* The split flow: the USER process (runDeposit, then runUserSettleHodlInvoice)
\* and the LP process (runLpOperatorFlow) interleaved, the RLN node reporting a
\* preimage only once an invoiceSettle carried it.
InitSplit ==
  /\ InitCommon
  /\ swParams \in {DefaultSwapParams}
  /\ cfg = [LOCKTIME_BLOCKS |-> 300, HODL_EXPIRY_SEC |-> 86400, MIN_CONFS |-> 1]
  /\ depParams = [amountSat |-> 1500, userRefundPubkeyHex |-> "02aabb"]
  /\ store = [w \in Worlds |-> {}]
  /\ collab = "faithful"

NextSplit ==
  \/ NextDeposit
  \/ NextUserSettle
  \/ NextLpOperator

SpecSplit == InitSplit /\ [][NextSplit]_vars

\* The legacy flow and the spend-path builders, against arbitrary collaborators
InitSwap ==
  /\ InitCommon
  /\ cfg \in [LOCKTIME_BLOCKS : {6, 300}, HODL_EXPIRY_SEC : {86400}, MIN_CONFS : {1}]
  /\ depParams = [amountSat |-> 1500, userRefundPubkeyHex |-> "02aabb"]
  /\ swParams \in SwapParamSets
  /\ store = [w \in Worlds |-> {}]
  /\ collab = "free"

NextSwap ==
  \/ SwapBegin
  \/ SwapDecodeReturn
  \/ SwapBlockCountReturn
  \/ SwapFundingReturn
  \/ SwapPayReturn
  \/ SwapPollReturn
  \/ SwapSleepReturn
  \/ SwapFetchReturn
  \/ SwapSendRawReturn
  \/ SwapGetRawTxReturn
  \/ DirectClaimWithPreimage
  \/ DirectBuildRefundPsbt

SpecSwap == InitSwap /\ [][NextSwap]_vars

\* The legacy flow and the LP operator flow side by side: decode, pay and the
\* k-th getPaymentPreimage answer each of them the same; the comparison ends
\* with the answer after which one of them polls no more.

PairDecodeReturn ==
  /\ sw.pc = "decode" /\ lp.pc = "decode"
  /\ \E r \in {Ok([payment_hash |-> h, amt_msat |-> a, timestamp |-> 1000,
                     expiry_sec |-> 420]) :
                  h \in Hashes, a \in {None, Some(3000000)}} \cup {Thrown} :
       /\ sw' = SwAfterDecode(sw, r)
       /\ lp' = LpAfterDecode(lp, r)
  /\ UNCHANGED <<coinVars, moreVars, cfg, depParams, depVars, collab, rlnSettled, us, swParams, broadcasts, psbts>>

PairPayReturn ==
  /\ sw.pc = "pay" /\ lp.pc = "pay"
  /\ \E r \in {Ok(s) : s \in HTLCStatus} \cup {Thrown} :
       /\ sw' = SwAfterPay(sw, cfg, swParams, r)
       /\ lp' = LpAfterPay(lp, r)
  /\ broadcasts' = broadcasts \cup IssuedBroadcasts(sw, sw')
  /\ UNCHANGED <<coinVars, moreVars, cfg, depParams, depVars, collab, rlnSettled, us, swParams, psbts>>

PairPollReturn ==
  /\ sw.pc \in {"getPaymentPreimage", "fetchPreimage"}
  /\ lp.pc = "getPaymentPreimage"
  /\ \E r \in GetPaymentPreimageReplies(lp.paymentHash) :
       /\ sw' = IF sw.pc = "fetchPreimage" THEN SwAfterFetch(sw, r)
                ELSE SwAfterPoll(sw, cfg, swParams, r)
       /\ lp' = LpAfterPoll(lp, r)
  /\ broadcasts' = broadcasts \cup IssuedBroadcasts(sw, sw')
  /\ UNCHANGED <<coinVars, moreVars, cfg, depParams, depVars, collab, rlnSettled, us, swParams, psbts>>

InitLegacyVsSplit ==
  /\ InitCommon
  /\ cfg = [LOCKTIME_BLOCKS |-> 300, HODL_EXPIRY_SEC |-> 86400, MIN_CONFS |-> 1]
  /\ depParams = [amountSat |-> 1500, userRefundPubkeyHex |-> "02aabb"]
  /\ swParams = DefaultSwapParams
  /\ store = [w \in Worlds |-> {}]
  /\ collab = "free"

NextLegacyVsSplit ==
  \/ SwapBegin
  \/ LpBegin
  \/ PairDecodeReturn
  \/ SwapBlockCountReturn
  \/ SwapFundingReturn
  \/ PairPayReturn
  \/ PairPollReturn
  \/ SwapSleepReturn
  \/ LpSleepReturn
  \/ SwapSendRawReturn
  \/ SwapGetRawTxReturn
  \/ LpScanReturn
  \/ LpClaimReturn

SpecLegacyVsSplit == InitLegacyVsSplit /\ [][NextLegacyVsSplit]_vars

\* The three payment-status polling loops, one execution of one of them at a time
PollUserSettleBegin == lp.pc = "idle" /\ uw.pc = "idle" /\ UserSettleBegin
PollLpBegin == us.pc = "idle" /\ uw.pc = "idle" /\ LpBegin
PollUserWaitBegin == us.pc = "idle" /\ lp.pc = "idle" /\ UserWaitBegin

InitPolling ==
  /\ InitCommon
  /\ cfg = [LOCKTIME_BLOCKS |-> 300, HODL_EXPIRY_SEC |-> 86400, MIN_CONFS |-> 1]
  /\ depParams = [amountSat |-> 1500, userRefundPubkeyHex |-> "02aabb"]
  /\ swParams = DefaultSwapParams
  /\ store = [w \in Worlds |-> StoredRecords]
  /\ collab = "free"

NextPolling ==
  \/ PollUserSettleBegin
  \/ UserSettleLoadReturn
  \/ UserSettleGetPaymentReturn
  \/ UserSettleSleepReturn
  \/ UserSettleInvoiceSettleReturn
  \/ PollLpBegin
  \/ LpDecodeReturn
  \/ LpPayReturn
  \/ LpPollReturn
  \/ LpSleepReturn
  \/ LpScanReturn
  \/ LpClaimReturn
  \/ PollUserWaitBegin
  \/ UserWaitStatusReturn
  \/ UserWaitSleepReturn

SpecPolling == InitPolling /\ [][NextPolling]_vars

\* The handoff channel: the server's slots under arbitrary publishes, and one
\* wait of a client
InitHandoff ==
  /\ InitCommon
  /\ cfg = [LOCKTIME_BLOCKS |-> 300, HODL_EXPIRY_SEC |-> 86400, MIN_CONFS |-> 1]
  /\ depParams = [amountSat |-> 1500, userRefundPubkeyHex |-> "02aabb"]
  /\ swParams = DefaultSwapParams
  /\ store = [w \in Worlds |-> {}]
  /\ collab = "free"

NextHandoff ==
  \/ HttpPost
  \/ PublishLocal
  \/ HandoffWaitBegin
  \/ HandoffFetchReturn
  \/ HandoffSleepReturn

SpecHandoff == InitHandoff /\ [][NextHandoff]_vars

\* The handoff server alone: POSTs of arbitrary clients, the local publishes
\* and the GETs of one client that polls a slot
HandoffWaitOfSlot ==
  HandoffWaitBegin /\ hw'.fn # "waitForSubmarineData" /\ hw'.maxAttempts \in {1, 2}

NextServer ==
  \/ HttpPostNoted
  \/ PublishLocal
  \/ HandoffWaitOfSlot
  \/ HandoffFetchReturn
  \/ HandoffSleepReturn

SpecServer == InitHandoff /\ [][NextServer]_vars

\* comm-client.ts 115-118: the GET of fetchSubmarineData carries
\* timeout: REQUEST_TIMEOUT_MS, so it comes back (ECONNABORTED at the latest)
TimedFetchReturn == hw.fn = "waitForSubmarineData" /\ HandoffFetchReturn

\* What the code makes sure of: every setTimeout fires and the GET with a
\* timeout comes back. The GETs of fetchSubmarineRequest and fetchFundingData
\* (comm-client.ts 19-21, 58) carry no timeout: a server that accepts the
\* request and never answers leaves them pending
SpecHandoffLive ==
  SpecHandoff /\ WF_vars(TimedFetchReturn) /\ WF_vars(HandoffSleepReturn)

\* waitForFunding against a node that knows some of the outputs
InitFunding ==
  /\ InitCommon
  /\ cfg = [LOCKTIME_BLOCKS |-> 300, HODL_EXPIRY_SEC |-> 86400, MIN_CONFS |-> 1]
  /\ depParams = [amountSat |-> 1500, userRefundPubkeyHex |-> "02aabb"]
  /\ swParams = DefaultSwapParams
  /\ store = [w \in Worlds |-> {}]
  /\ collab = "free"

NextFunding ==
  \/ WaitForFundingBegin
  \/ WfScanReturn
  \/ WfRawTxReturn
  \/ WfImportReturn
  \/ WfListUnspentReturn
  \/ WfSleepReturn

SpecFunding == InitFunding /\ [][NextFunding]_vars

\* Every RPC call is answered or fails, and every setTimeout fires
SpecFundingLive ==
  /\ SpecFunding
  /\ WF_vars(WfScanReturn) /\ WF_vars(WfRawTxReturn) /\ WF_vars(WfImportReturn)
  /\ WF_vars(WfListUnspentReturn) /\ WF_vars(WfSleepReturn)

\* selectUtxos called directly, and sendDepositTransaction against a node
InitCoins ==
  /\ InitCommon
  /\ cfg = [LOCKTIME_BLOCKS |-> 300, HODL_EXPIRY_SEC |-> 86400, MIN_CONFS |-> 1]
  /\ depParams = [amountSat |-> 1500, userRefundPubkeyHex |-> "02aabb"]
  /\ swParams = DefaultSwapParams
  /\ store = [w \in Worlds |-> {}]
  /\ collab = "free"

NextCoins ==
  \/ DirectSelectUtxos
  \/ SendDepositBegin
  \/ SendDepositScanReturn
  \/ SendDepositSendReturn

SpecCoins == InitCoins /\ [][NextCoins]_vars

\* The HTLC builders called on their own
InitHtlc ==
  /\ InitCommon
  /\ cfg = [LOCKTIME_BLOCKS |-> 300, HODL_EXPIRY_SEC |-> 86400, MIN_CONFS |-> 1]
  /\ depParams = [amountSat |-> 1500, userRefundPubkeyHex |-> "02aabb"]
  /\ swParams = DefaultSwapParams
  /\ store = [w \in Worlds |-> {}]
  /\ collab = "free"

NextHtlc ==
  \/ BuildSegwitHtlc
  \/ ReconstructSegwit
  \/ BuildTaprootHtlc
  \/ ReconstructTaproot

SpecHtlc == InitHtlc /\ [][NextHtlc]_vars

\* Either runSwap (or a spend-path builder) or a coin-selection run, against a
\* node that may reject what it is sent
SwapAlone == sd.pc = "idle" /\ ~sel.done /\ NextSwap
CoinsAlone == sw.pc = "idle" /\ broadcasts = {} /\ psbts = {} /\ NextCoins

NextBroadcast ==
  \/ SwapAlone
  \/ CoinsAlone

SpecBroadcast == InitSwap /\ [][NextBroadcast]_vars

\* runDeposit called repeatedly in one USER process, against a faithful LP
InitRepeat ==
  /\ InitCommon
  /\ swParams = DefaultSwapParams
  /\ cfg = [LOCKTIME_BLOCKS |-> 300, HODL_EXPIRY_SEC |-> 86400, MIN_CONFS |-> 1]
  /\ depParams = [amountSat |-> 1500, userRefundPubkeyHex |-> "02aabb"]
  /\ store = [w \in Worlds |-> {}]
  /\ collab = "faithful"

NextRepeat ==
  \/ NextDeposit
  \/ DepositAgain

SpecRepeat == InitRepeat /\ [][NextRepeat]_vars

-----------------------------------------------------------------------------
(* Properties                                                              *)

\* The calls of a call log that went to one of `fns`, by position
CallIdx(calls, fns) == {i \in 1..Len(calls) : calls[i].fn \in fns}

\* C2: in runDeposit the address handed to sendDeposit and to waitForFunding
\* (and returned as htlc_p2tr_address) is the address derived locally from the
\* received htlc_p2tr_script_pubkey, whatever address the LP's response carries.
C2_FundedAddressIsDerived ==
  \A w \in Worlds :
    /\ \A i \in CallIdx(dep[w].calls, {"sendDeposit", "waitForFunding"}) :
         dep[w].calls[i].address = Get(dep[w].derivedAddress)
    /\ IsSome(dep[w].htlcAddress) => dep[w].htlcAddress = dep[w].derivedAddress

\* C3: whenever runDeposit has reached sendDeposit, the LP's response carried a
\* t_lock, and the blocks from the tip to it, at 600 s each, outlast the
\* invoice expiry by more than the 3600 s cushion.
C3_FundedTimelockOutlastsExpiry ==
  \A w \in Worlds :
    CallIdx(dep[w].calls, {"sendDeposit"}) # {} =>
      /\ IsSome(dep[w].tLock)
      /\ (Get(dep[w].tLock) - TipHeight) * 600 > cfg.HODL_EXPIRY_SEC + 3600

\* C4: when LOCKTIME_BLOCKS * 600 <= HODL_EXPIRY_SEC + 3600, a started
\* runDeposit has rejected and has invoked none of its collaborators.
C4_UnsafeMarginRejectsBeforeAnyCall ==
  \A w \in Worlds :
    (cfg.LOCKTIME_BLOCKS * 600 <= cfg.HODL_EXPIRY_SEC + 3600 /\ dep[w].pc # "idle") =>
      /\ dep[w].pc = "rejected"
      /\ dep[w].calls = <<>>

\* C4's case: a valid amount, the margin exactly at the limit, rejected
C4_Witness ==
  /\ depParams.amountSat >= 330
  /\ cfg.LOCKTIME_BLOCKS * 600 = cfg.HODL_EXPIRY_SEC + 3600
  /\ \A w \in Worlds : dep[w].pc = "rejected"

\* The fields of a call that hold a hex string
HexFields == {"payment_hash", "preimage", "payment_preimage"}

\* The calls of world w's runDeposit that carry its preimage
PreimageCarriers(w) ==
  {i \in 1..Len(dep[w].calls) :
     \E f \in DOMAIN dep[w].calls[i] \cap HexFields :
        dep[w].calls[i][f] = dep[w].preimage}

\* Two executions that got the same answers publish the same handoff values
HandoffIndependentOfPreimage ==
  /\ submarineRequest[1] = submarineRequest[2]
  /\ fundingData[1] = fundingData[2]
  /\ \A i \in CallIdx(dep[1].calls, {"publishSubmarineRequest", "publishFundingData"}) :
       dep[2].calls[i] = dep[1].calls[i]

\* C6 as stated: the handoff values do not depend on the preimage, and no call
\* of runDeposit other than invoiceSettle carries the preimage to a collaborator.
C6_OnlyInvoiceSettleCarriesPreimage ==
  /\ HandoffIndependentOfPreimage
  /\ \A w \in Worlds : \A i \in PreimageCarriers(w) :
       dep[w].calls[i].fn = "invoiceSettle"

\* C6: the handoff values do not depend on the preimage, and the only call of
\* runDeposit that carries the preimage to a collaborator is persistHodlRecord,
\* the local store that runUserSettleHodlInvoice reads it back from for
\* invoiceSettle.
C6_PreimageStaysLocal ==
  /\ HandoffIndependentOfPreimage
  /\ \A w \in Worlds : \A i \in PreimageCarriers(w) :
       dep[w].calls[i].fn = "persistHodlRecord"

\* C6's case: two finished deposits that differ in the preimage
C6_Witness ==
  /\ dep[1].pc = "done" /\ dep[2].pc = "done"
  /\ dep[1].preimage # dep[2].preimage
  /\ IsSome(submarineRequest[1]) /\ IsSome(fundingData[1])
  /\ PreimageCarriers(1) # {}

\* C9: runUserSettleHodlInvoice calls invoiceSettle at most once, only after a
\* poll reported Claimable for an inbound payment, for the given hash and with
\* the preimage of the stored record for that hash; never after it observed
\* Succeeded, Cancelled or Failed, nor after its attempts ran out.
C9_SettleOnlyWhenClaimable ==
  LET settles == CallIdx(us.calls, {"invoiceSettle"})
      rec == getHodlRecord(store[1], us.paymentHash)
  IN /\ Cardinality(settles) <= 1
     /\ \A i \in settles :
          /\ IsSome(us.endReply)
          /\ Get(us.endReply).status = "Claimable"
          /\ Get(us.endReply).inbound
          /\ us.calls[i].payment_hash = us.paymentHash
          /\ IsSome(rec)
          /\ us.calls[i].payment_preimage = Get(rec).preimage
          /\ us.observed \cap {"Succeeded", "Cancelled", "Failed"} = {}
          /\ us.attempt < us.maxAttempts

\* C9's case: a Claimable payment was settled after an earlier Pending poll
C9_Witness ==
  /\ us.pc = "done"
  /\ CallIdx(us.calls, {"invoiceSettle"}) # {}
  /\ "Pending" \in us.observed
  /\ us.result = Some([settled |-> TRUE, status |-> "Succeeded"])

\* C10: runLpOperatorFlow invokes htlcScan, and htlcClaim after it, only once
\* a poll returned Succeeded with a non-empty preimage, and hands htlcClaim that
\* preimage; it invokes neither when pay returned Failed nor when the polling
\* ended in Cancelled, Failed or Timeout.
C10_ClaimOnlyAfterSucceededPreimage ==
  LET scans == CallIdx(lp.calls, {"htlcScan"})
      claims == CallIdx(lp.calls, {"htlcClaim"})
  IN /\ \A i \in claims : \E j \in scans : j < i
     /\ scans \cup claims # {} =>
          /\ IsSome(lp.endReply)
          /\ Get(lp.endReply).status = "Succeeded"
          /\ IsSome(Get(lp.endReply).preimage)
          /\ Get(Get(lp.endReply).preimage) # EmptyHex
          /\ ~lp.payFailed
     /\ \A i \in claims : lp.calls[i].preimage = Get(Get(lp.endReply).preimage)
     /\ (IsSome(lp.result) /\ Get(lp.result) \in {"Cancelled", "Failed", "Timeout"}) =>
          scans \cup claims = {}

\* C10's case: the preimage arrived after an earlier poll and was claimed with
C10_Witness ==
  /\ lp.pc = "done"
  /\ lp.attempt > 0
  /\ CallIdx(lp.calls, {"htlcClaim"}) # {}
  /\ lp.result = Some("Succeeded")

\* C5: with an RLN node that reports a preimage only once the invoice was
\* settled, every htlcClaim of the LP comes after an invoiceSettle of the USER
\* for the same payment hash.
C5_ClaimAfterSettle ==
  \A i \in CallIdx(lp.calls, {"htlcClaim"}) :
    \E j \in CallIdx(us.calls, {"invoiceSettle"}) :
       us.calls[j].payment_hash = lp.calls[i].payment_hash

\* C5's case: deposit, settlement and the LP's claim all happened
C5_Witness ==
  /\ dep[1].pc = "done"
  /\ CallIdx(lp.calls, {"htlcClaim"}) # {}
  /\ CallIdx(us.calls, {"invoiceSettle"}) # {}

\* C1: every claim transaction handed to sendRawTransaction by
\* claimWithPreimage, from runSwap or from a direct call, has a witness
\* preimage whose SHA256 is the payment hash of the redeem script it spends.
C1_BroadcastPreimageHashesToH ==
  \A tx \in broadcasts : sha256hex(tx.witness[2]) = tx.witness[4].H

\* C7: one runSwap execution invokes at most one of claimWithPreimage and
\* buildRefundPsbtBase64: no refund PSBT where a claim was attempted, no claim
\* where a refund PSBT was produced.
C7_ClaimXorRefund ==
  /\ ~(/\ CallIdx(sw.calls, {"claimWithPreimage"}) # {}
       /\ CallIdx(sw.calls, {"buildRefundPsbtBase64"}) # {})
  /\ Cardinality(CallIdx(sw.calls, {"claimWithPreimage", "buildRefundPsbtBase64"})) <= 1
  /\ (sw.pc # "idle" /\ psbts # {}) => CallIdx(sw.calls, {"claimWithPreimage"}) = {}
  /\ (sw.pc # "idle" /\ broadcasts # {}) => CallIdx(sw.calls, {"buildRefundPsbtBase64"}) = {}

\* C7's case: the claim was attempted and its broadcast failed
C7_Witness ==
  /\ sw.pc = "done"
  /\ CallIdx(sw.calls, {"claimWithPreimage"}) # {}
  /\ broadcasts # {}
  /\ sw.result = Some([success |-> FALSE, kind |-> "error"])

\* C8: every refund PSBT has locktime equal to the tLockHeight it was built
\* for and input 0 sequence 0xFFFFFFFE; in runSwap that height is tip +
\* LOCKTIME_BLOCKS, the number the HTLC script holds; every claim transaction
\* has input sequence 0xFFFFFFFF and locktime 0.
C8_SpendPathLocktimes ==
  /\ \A p \in psbts :
       /\ p.locktime = p.tLockHeight
       /\ p.ins[1].sequence = <<65535, 65534>>
  /\ \A i \in CallIdx(sw.calls, {"buildRefundPsbtBase64"}) :
       /\ sw.calls[i].tLockHeight = sw.tipHeight + cfg.LOCKTIME_BLOCKS
       /\ sw.calls[i].tLockHeight = scriptNumDecode(Get(sw.script).lockTimeBuffer)
  /\ sw.pc # "idle" => \A p \in psbts :
       p.locktime = scriptNumDecode(p.ins[1].witnessScript.lockTimeBuffer)
  /\ \A tx \in broadcasts :
       /\ tx.ins[1].sequence = <<65535, 65535>>
       /\ tx.locktime = 0

\* C8's case: runSwap returned a refund PSBT for a two-byte timelock
C8_Witness ==
  /\ sw.pc = "done"
  /\ sw.result = Some([success |-> FALSE, kind |-> "psbt"])
  /\ \E p \in psbts : p.locktime = 5300 /\ Len(p.ins[1].witnessScript.lockTimeBuffer) = 2

\* C11: on the same pay and payment-status answers runSwap and
\* runLpOperatorFlow decide alike about the claim: claimWithPreimage and
\* htlcClaim are each started only with a preimage whose SHA256 is the
\* invoice's payment hash, and a reported preimage that does not hash to it
\* leaves both without a claim.
C11_LegacyAndSplitClaimAlike ==
  /\ \A i \in CallIdx(sw.calls, {"claimWithPreimage"}) :
       IsSome(sw.preimage) /\ sha256hex(Get(sw.preimage)) = sw.H
  /\ \A i \in CallIdx(lp.calls, {"htlcClaim"}) :
       sha256hex(lp.calls[i].preimage) = lp.calls[i].payment_hash
  /\ \A i \in CallIdx(lp.calls, {"htlcScan", "htlcClaim"}) :
       sha256hex(Get(lp.preimage)) = lp.paymentHash
  /\ (CallIdx(sw.calls, {"claimWithPreimage"}) = {})
        = (CallIdx(lp.calls, {"htlcScan"}) = {})

\* C12: a payment-status polling loop of runUserSettleHodlInvoice,
\* runUserWaitInvoiceStatus or runLpOperatorFlow that has used up its attempts
\* without observing a terminal status ends by returning the status 'Timeout',
\* not a non-terminal status and not an error.
C12_ExhaustedPollingReturnsTimeout ==
  /\ (us.pc \in {"done", "rejected"} /\ IsSome(us.record)
        /\ us.attempt = us.maxAttempts /\ ~IsSome(us.endReply)) =>
       /\ IsSome(us.result)
       /\ Get(us.result).status = "Timeout"
  /\ (uw.pc \in {"done", "rejected"} /\ uw.attempt = uw.maxAttempts) =>
       uw.result = Some("Timeout")
  /\ (lp.pc \in {"done", "rejected"} /\ lp.attempt = LP_MAX_ATTEMPTS) =>
       lp.result = Some("Timeout")

\* C13: a GET of a handoff resource nothing was published to answers 'not yet
\* available' without an error payload, and the polling client that gets this
\* answer keeps waiting.
C13_NotYetIsNotAnError ==
  (/\ hw.fn \in {"waitForSubmarineRequest", "waitForFundingData"}
   /\ IsSome(hw.response) /\ Get(hw.response).ok
   /\ hw.slotWasNull /\ published[ResourceOf(hw.fn)] = None) =>
     /\ \/ ~IsSome(Get(hw.response).value.body)
        \/ "error" \notin DOMAIN Get(Get(hw.response).value.body)
     /\ hw.pc # "threw"

\* C14: once a handoff resource was published to, by POST or by the local
\* publish functions, a GET returns the value published last, and nothing else.
C14_GetReturnsLastPublished ==
  \A res \in Resources :
    IsSome(published[res]) =>
      HttpGet(SlotOf(res), res) = [status |-> 200, body |-> Get(published[res])]

\* C15: a handoff wait polls at most maxAttempts times, has then returned the
\* slot value or failed with an error, and every started wait ends, whatever
\* the counterparty and the transport do.
C15_HandoffWaitsTerminate ==
  /\ [](/\ hw.polls <= hw.maxAttempts
        /\ hw.pc = "returned" => ~IsSome(hw.error)
        /\ hw.pc = "threw" => IsSome(hw.error) /\ ~IsSome(hw.value))
  /\ (hw.pc # "idle") ~> (hw.pc \in {"returned", "threw"})

\* C16: in waitForSubmarineData every base delay slept is at most
\* MAX_BACKOFF_MS (10000), the jitter added is below 250, and the base delays
\* never decrease.
C16_BackoffBoundedAndMonotone ==
  hw.fn = "waitForSubmarineData" =>
    /\ hw.jitter < 250
    /\ \A k \in 1..Len(hw.delays) :
         /\ hw.delays[k] <= 10000
         /\ k > 1 => hw.delays[k - 1] <= hw.delays[k]

\* C17: in waitForSubmarineData a connection error (ECONNREFUSED, ECONNRESET,
\* ECONNABORTED) is retried while attempts remain, and any other error ends
\* the wait with that error on the attempt it occurred on.
C17_OnlyTransientErrorsRetried ==
  (hw.fn = "waitForSubmarineData" /\ IsSome(hw.response)
     /\ fetchSubmarineData(Get(hw.response)).threw) =>
    LET e == fetchSubmarineData(Get(hw.response)).error
    IN IF e.code \in {"ECONNABORTED", "ECONNREFUSED", "ECONNRESET"}
       THEN hw.i < hw.maxAttempts - 1 => hw.pc \in {"sleep", "fetch"}
       ELSE hw.pc = "threw" /\ hw.error = Some(e)


\* C20: in runDeposit and in runSwap every step taken after waitForFunding
\* returned (sendAsset, publishFundingData, pay, the claim and refund PSBTs)
\* comes after a getTransactionOutput call that checked the funding output's
\* scriptPubKey against the HTLC's output script.
C20_FundingScriptCheckedBeforeProceeding ==
  /\ \A w \in Worlds :
       \A i \in CallIdx(dep[w].calls, {"sendAsset", "publishFundingData"}) :
         \E j \in 1..(i - 1) : dep[w].calls[j].fn = "getTransactionOutput"
  /\ \A i \in CallIdx(sw.calls, {"pay"}) :
       \E j \in 1..(i - 1) : sw.calls[j].fn = "getTransactionOutput"
  /\ psbts # {} => \E j \in 1..Len(sw.calls) : sw.calls[j].fn = "getTransactionOutput"


\* C18: every FundingUtxo waitForFunding(address, minConfs) returns is an
\* output of the node that pays to `address`, has at least minConfs
\* confirmations and a positive value, on the scan and on the fallback alike.
C18_ReturnedUtxoPaysToAddress ==
  wf.pc = "returned" =>
    \E o \in wf.chain :
      /\ o.txid = Get(wf.result).txid
      /\ o.vout = Get(wf.result).vout
      /\ o.address = wf.address
      /\ o.confirmations >= wf.minConfs
      /\ o.amount > 0
      /\ Get(wf.result).value = o.amount

C21_PayOnlyAfterFundingConfirmed ==
  /\ \A i \in CallIdx(sw.calls, {"pay"}) :
       /\ IsSome(sw.funding)
       /\ \E j \in 1..(i - 1) : sw.calls[j].fn = "waitForFunding"
  /\ \A i \in CallIdx(lp.calls, {"pay"}) :
       \E j \in 1..(i - 1) :
         lp.calls[j].fn \in {"waitForFunding", "getTransactionOutput", "htlcScan"}


\* The collaborator calls of runDeposit, in the order of orchestrator.ts 172-262
DepositOrder ==
  << "invoiceHodl", "persistHodlRecord", "publishSubmarineRequest",
     "waitForRgbInvoiceHtlcResponse", "sendDeposit", "waitForFunding", "sendAsset",
     "waitForTxConfirmation", "refreshTransfers", "publishFundingData" >>

\* the arguments the claim names, for call number i of a run
DepositArgsAsClaimed(d, i) ==
  LET c == d.calls[i]
  IN /\ i = 5 => c.address = Get(d.htlcAddress) /\ c.amountSat = depParams.amountSat
     /\ i = 6 => c.address = Get(d.htlcAddress) /\ c.minConfs = cfg.MIN_CONFS
     /\ i = 7 => c.invoice = Get(d.rgb).invoice
     /\ i = 8 => c.minConfs = cfg.MIN_CONFS
     /\ i = 10 => c.funding = [fundingTxid |-> Get(d.funding).txid,
                               fundingVout |-> Get(d.funding).vout]

RECURSIVE SumValues(_, _)
SumValues(utxos, S) ==
  IF S = {} THEN 0
  ELSE LET i == CHOOSE i \in S : TRUE IN utxos[i].valueSat + SumValues(utxos, S \ {i})

\* some subset of the utxos pays the amount and the fee of a transaction with
\* that many inputs and one output
SomeSubsetSuffices(s) ==
  \E S \in SUBSET (1..Len(s.utxos)) :
    SumValues(s.utxos, S) >=
      s.amountSat + CeilFee(TX_OVERHEAD_VBYTES + Cardinality(S) * s.inputVbytes
                              + s.outputVbytes, s.feeRate2)

\* C23: selectUtxos succeeds exactly when some subset S of the utxos has
\* sum(S) >= amountSat + ceil((10 + |S|*inputVbytes + outputVbytes) * feeRate),
\* and throws 'Insufficient funds' otherwise.
C23_SelectSucceedsIffSubsetSuffices ==
  sel.done => (sel.result.ok <=> SomeSubsetSuffices(sel))

\* C23's case: a list given smallest first, of which no single utxo suffices
\* and the selection took more than one
C23_Witness ==
  /\ sel.done /\ sel.result.ok
  /\ Len(sel.utxos) = 3
  /\ sel.utxos[1].valueSat < sel.utxos[3].valueSat
  /\ Len(sel.result.selected) = 2

\* C24: a successful selectUtxos result has changeSat = 0 or changeSat >=
\* dustLimit, and the deposit transaction has a change output exactly when the
\* selection's changeSat is at least 330, never one below 330.
C24_NoChangeBelowDust ==
  /\ (sel.done /\ sel.result.ok) =>
       (sel.result.changeSat = 0 \/ sel.result.changeSat >= sel.dustLimit)
  /\ IsSome(sd.psbt) =>
       LET outs == Get(sd.psbt).outs
       IN /\ sd.selection.changeSat = 0 \/ sd.selection.changeSat >= 330
          /\ Len(outs) = 2 <=> sd.selection.changeSat >= 330
          /\ \A i \in 2..Len(outs) : outs[i].value >= 330

\* C24's case: the selection left less than the dust limit over, the deposit
\* was built with the payment alone
C24_Witness ==
  /\ sd.pc = "done"
  /\ Len(Get(sd.psbt).outs) = 1
  /\ \E i \in 1..Len(sd.utxos) : sd.utxos[i].valueSat > sd.amountSat + sd.selection.feeSat


\* C29: sendDepositTransaction spends only utxos of the scan whose scriptPubKey
\* equals, case-insensitively, the taproot script derived from the WIF, and
\* when the scan has none it rejects with 'No UTXOs found' and builds and
\* broadcasts nothing.
C29_OnlyOwnTaprootInputs ==
  LET own(i) == /\ IsSome(sd.scanned[i].scriptPubKey)
                /\ ToLowerCase(Get(sd.scanned[i].scriptPubKey)) = ToLowerCase(OwnScriptPubkey)
      scanReturned == sd.pc \in {"sendRawTransaction", "done"}
                        \/ (sd.pc = "rejected" /\ sd.error # "scanTxOutSet"
                              /\ Len(sd.calls) >= 1)
  IN /\ IsSome(sd.psbt) =>
          \A k \in 1..Len(Get(sd.psbt).ins) :
            \E i \in 1..Len(sd.scanned) :
              /\ own(i)
              /\ Get(sd.psbt).ins[k].txid = sd.scanned[i].txid
              /\ Get(sd.psbt).ins[k].vout = sd.scanned[i].vout
     /\ (scanReturned /\ ~\E i \in 1..Len(sd.scanned) : own(i)) =>
          /\ sd.pc = "rejected"
          /\ sd.error = "No UTXOs found for the taproot address derived from WIF"
          /\ ~IsSome(sd.psbt)
          /\ CallIdx(sd.calls, {"sendRawTransaction"}) = {}

\* C29's case: the scan listed a utxo of another script and one of the own
\* script in upper case; the deposit was broadcast
C29_Witness ==
  /\ sd.pc = "done"
  /\ Len(sd.scanned) = 2
  /\ sd.scanned[1].scriptPubKey = Some("5120cd")
  /\ sd.scanned[2].scriptPubKey = Some("5120AB")

\* C30: the transaction sendDepositTransaction(address, amountSat) broadcasts
\* pays amountSat to `address`, has a change output to the own taproot address
\* exactly when the selection's change is at least 330, and no other output;
\* the returned hex is the broadcast one, input_count is the number of selected
\* inputs and psbt_base64 is the PSBT before signing.
C30_DepositTransactionShape ==
  \A c \in CallIdx(sd.calls, {"sendRawTransaction"}) :
    LET tx == sd.calls[c].hex
        change == sd.selection.changeSat
    IN /\ tx.signed
       /\ tx.outs[1] = [address |-> sd.address, value |-> sd.amountSat]
       /\ Len(tx.outs) = IF change >= 330 THEN 2 ELSE 1
       /\ change >= 330 => tx.outs[2] = [address |-> OwnTaprootAddress, value |-> change]
       /\ Len(tx.ins) = Len(sd.selection.selected)
       /\ sd.pc = "done" =>
            /\ Get(sd.result).hex = tx
            /\ Get(sd.result).input_count = Len(tx.ins)
            /\ ~Get(sd.result).psbt_base64.signed
            /\ Get(sd.result).psbt_base64.ins = tx.ins
            /\ Get(sd.result).psbt_base64.outs = tx.outs
            /\ Get(sd.result).change_sat = change

\* C30's case: a deposit with change, broadcast and returned
C30_Witness ==
  /\ sd.pc = "done"
  /\ sd.selection.changeSat >= 330
  /\ Len(sd.calls[2].hex.outs) = 2


\* the dust floor of the destination's script type (utxo_utils.ts 4-5)
DustFloor(address) ==
  IF address \in {"bcrt1phtlc", "bcrt1pown"} THEN DUST_LIMIT_SAT ELSE DUST_LIMIT_P2WPKH_SAT

\* C25: for a funding utxo of value v and the fee estimate f = 1000,
\* claimWithPreimage and buildRefundPsbtBase64 create exactly one output of
\* value v - f whenever v exceeds f plus the dust floor of the destination's
\* script type, and otherwise fail before anything is signed or broadcast.
C25_SpendOutputIsValueMinusFee ==
  LET v == Get(sw.funding).value
      f == ESTIMATED_FEE
  IN /\ \A i \in CallIdx(sw.calls, {"claimWithPreimage"}) :
          IF v > f + DustFloor(LP_CLAIM_ADDRESS)
          THEN /\ IsSome(sw.calls[i].tx)
               /\ Len(Get(sw.calls[i].tx).outs) = 1
               /\ Get(sw.calls[i].tx).outs[1].value = v - f
          ELSE ~IsSome(sw.calls[i].tx) /\ broadcasts = {}
     /\ (CallIdx(sw.calls, {"buildRefundPsbtBase64"}) # {}
           /\ ValidAddress(swParams.userRefundAddress)) =>
          IF v > f + DustFloor(swParams.userRefundAddress)
          THEN \/ sw.pc = "getRawTransaction"
               \/ \E p \in psbts : Len(p.outs) = 1 /\ p.outs[1].value = v - f
          ELSE sw.pc = "done" /\ psbts = {}


\* C26: claimWithPreimage rejects, before signing or broadcasting, every
\* preimage whose decoded length is not exactly 32 bytes: the preimage in the
\* witness of every broadcast claim transaction is 32 bytes long.
C26_ClaimPreimageIs32Bytes ==
  \A tx \in broadcasts : BufferLength(tx.witness[2]) = 32


\* C27: buildHtlcRedeemScript returns a script and an address exactly when
\* the payment hash is 32 bytes of hex and both pubkeys are the hex of a
\* 33-byte compressed key with prefix 02 or 03, and neither otherwise.
C27_BuildFailsOnMalformedInput ==
  (hb.variant = "segwit-v0" /\ hb.pc # "idle") =>
    /\ IsSome(hb.script) <=> IsSome(hb.address)
    /\ IsSome(hb.script) <=>
         /\ Matches64Hex(hb.H)
         /\ isValidCompressedPubkey(hb.lpPubkey)
         /\ isValidCompressedPubkey(hb.userPubkey)

C31_BroadcastFailureSurfacedOnce ==
  /\ Cardinality(CallIdx(sd.calls, {"sendRawTransaction"})) <= 1
  /\ Cardinality({i \in CallIdx(sw.calls, {"claimWithPreimage"}) : IsSome(sw.calls[i].tx)}) <= 1
  /\ Cardinality(broadcasts) <= 1
  /\ (IsSome(sd.sendReply) /\ ~Get(sd.sendReply).ok) =>
       /\ sd.pc = "rejected"
       /\ sd.error = Get(sd.sendReply).message
       /\ ~IsSome(sd.result)
  /\ (IsSome(sw.sendReply) /\ ~Get(sw.sendReply).ok) =>
       /\ sw.pc = "done"
       /\ Get(sw.result).success = FALSE
       /\ \E k \in 1..Len(sw.error) : sw.error[k] = Get(sw.sendReply).message

\* C31's case: the node rejected the claim transaction of a runSwap
C31_Witness ==
  /\ IsSome(sw.sendReply)
  /\ Get(sw.sendReply) = [ok |-> FALSE, message |-> "min relay fee not met"]
  /\ CallIdx(sw.calls, {"pay"}) # {}


\* C32: for an invoice whose expiry (timestamp + expiry_sec) is not later than
\* the current time, runSwap builds no HTLC, waits for no funding, pays
\* nothing and returns success = false.
C32_ExpiredInvoiceNotProcessed ==
  (IsSome(sw.now) /\ sw.expires_at <= Get(sw.now)) =>
    /\ ~IsSome(sw.script)
    /\ CallIdx(sw.calls, {"waitForFunding", "pay"}) = {}
    /\ sw.pc = "done"
    /\ Get(sw.result).success = FALSE


\* C33: the HTLC parameters a run of runDeposit consumes were published by
\* the LP during that run, after the run published its submarine request; a
\* value an earlier run left in the rgbinvoicehtlc slot is never consumed.
C33_NoStaleHtlcResponse ==
  \A w \in Worlds : IsSome(dep[w].rgb) => run.rgbPostedIn = run.n


\* C34: every runSwap execution in which waitForFunding returned a funding
\* utxo ends either with a broadcast claim transaction id (success = true) or
\* with a refund PSBT in its result; none ends with neither.
C34_FundedSwapEndsInClaimOrRefund ==
  (sw.pc = "done" /\ IsSome(sw.funding)) =>
    \/ /\ Get(sw.result) = [success |-> TRUE, kind |-> "txid"]
       /\ broadcasts # {}
    \/ /\ Get(sw.result) = [success |-> FALSE, kind |-> "psbt"]
       /\ psbts # {}


\* C35: the FundingUtxo waitForFunding returns carries the transaction id, the
\* output index and the amount in satoshis of one unspent output of the node,
\* on the scantxoutset path as well as on the listunspent fallback.
C35_FundingUtxoFieldsOfMatchedOutput ==
  wf.pc = "returned" =>
    \E o \in wf.chain :
      /\ Get(wf.result).txid = o.txid
      /\ Get(wf.result).vout = o.vout
      /\ Get(wf.result).value = BtcToSats(o.amount)


\* C36: once getPayment has reported the payment as outbound (inbound = false),
\* runUserSettleHodlInvoice has failed with the `Payment is outbound` error: it
\* polls no further and never calls invoiceSettle.
C36_OutboundPaymentFailsTheSettle ==
  us.outbound =>
    /\ us.pc = "rejected"
    /\ \A i \in 1..Len(us.calls) : us.calls[i].fn # "invoiceSettle"


\* the value of a list of utxos
SumOfList(utxos) == SumValues(utxos, 1..Len(utxos))

\* the utxos of `selected` are different elements of `utxos`
DistinctElementsOf(selected, utxos) ==
  \E f \in [1..Len(selected) -> 1..Len(utxos)] :
    /\ \A i \in 1..Len(selected) : selected[i] = utxos[f[i]]
    /\ \A i, j \in 1..Len(selected) : i # j => f[i] # f[j]

\* what the inputs of a selection pay over the amount and the change is at
\* least its feeSat, and exactly its feeSat when there is change
PaysTheFee(selection, amountSat) ==
  LET paid == SumOfList(selection.selected) - amountSat - selection.changeSat
  IN /\ paid >= selection.feeSat
     /\ selection.changeSat > 0 => paid = selection.feeSat

\* C37: for every successful selectUtxos result, sum(selected) - amountSat -
\* changeSat >= feeSat, with equality whenever changeSat > 0, and the selected
\* utxos are distinct elements of the input; the same holds of the selection
\* sendDepositTransaction builds its transaction from.
C37_SelectionPaysAtLeastTheFee ==
  /\ (sel.done /\ sel.result.ok) =>
       /\ PaysTheFee(sel.result, sel.amountSat)
       /\ DistinctElementsOf(sel.result.selected, sel.utxos)
  /\ IsSome(sd.psbt) =>
       /\ PaysTheFee(sd.selection, sd.amountSat)
       /\ DistinctElementsOf(sd.selection.selected, sd.utxos)

\* C37's case: two utxos were selected, there is no change and the inputs pay
\* more than the estimated fee
C37_Witness ==
  /\ sel.done /\ sel.result.ok
  /\ Len(sel.result.selected) = 2
  /\ sel.result.changeSat = 0
  /\ SumOfList(sel.result.selected) - sel.amountSat > sel.result.feeSat


\* sendDepositTransaction takes the amount past the checks in front of its scan
SendDepositTakes(amountSat) ==
  SdBeginChecks(SdIdle, HtlcAddress, amountSat, TRUE, 2).pc # "rejected"

\* C38: runDeposit creates a HODL invoice or publishes a request to the LP only
\* for an amountSat of at least 330 sats that sendDepositTransaction takes (a
\* positive integer): every other amount is rejected before.
C38_NoInvoiceForUnsendableAmount ==
  \A w \in Worlds :
    (\/ \E i \in 1..Len(dep[w].calls) : dep[w].calls[i].fn = "invoiceHodl"
     \/ IsSome(submarineRequest[w]))
      => /\ SendDepositTakes(depParams.amountSat)
         /\ depParams.amountSat >= 330


\* the three slots of the handoff server
Slots == [res \in Resources |-> SlotOf(res)]

\* C39: a POST whose body is no valid JSON is answered with 400 and leaves the
\* three slots as they were; a POST of valid JSON is answered with 200, puts
\* the parsed value into the slot of its resource and leaves the other two
\* slots as they were; a GET changes no slot.
C39_PostChangesOnlyItsSlot ==
  /\ [][http' # http =>
          LET post == Get(http')
          IN /\ ~post.body.parses => post.status = 400 /\ Slots' = Slots
             /\ post.body.parses =>
                  /\ post.status = 200
                  /\ Slots' = [Slots EXCEPT ![post.res] = post.body.value]]_vars
  /\ [][(hw.pc = "fetch" /\ hw' # hw) => Slots' = Slots]_vars

\* C39's case: a slot holds a published value and the POST handled last had a
\* body that is no JSON, while a client's GET has been answered
C39_Witness ==
  /\ IsSome(http) /\ ~Get(http).body.parses
  /\ IsSome(SlotOf(Get(http).res))
  /\ hw.pc = "returned"

=============================================================================
